---- MODULE Spec2Model ----
(***************************************************************************)
(* Model of the memory subsystem of the mxos kernel:                       *)
(*   - the physical frame allocator (kernel/src/memory/pmm.rs),            *)
(*   - the virtual memory manager (kernel/src/memory/vmm.rs),              *)
(*   - the thread-local heap allocator (kernel/src/memory/malloc/mod.rs).  *)
(* Addresses are integers.  Virtual addresses of the heap are offsets from *)
(* the kernel base, so that they fit the model checker's integers.         *)
(***************************************************************************)
EXTENDS Integers, Sequences, FiniteSets, TLC

VARIABLES
    \* ---- physical frame allocator (BuddyAllocator) ----
    free_list,      \* Buddy.free_list per order: sequence of virtual addresses, head first
    map,            \* Buddy.map per order: the set of bits that are 1
    pfaPanicked,    \* an assert! or a slice index of the allocator has panicked
    pfaRegions,     \* history: the ranges handed to free_region
    pfaOut,         \* history: <<order, addr>> returned by alloc and not yet freed
    pfaOp,          \* history: the last operation, with the state it started from
    pfaAllocs,      \* history: the number of alloc calls made
    memory_regions, \* the boot loader's memory map handed to pmm::init
    buddy_map,      \* the physical bytes [start, end) that hold the buddy bitmaps
    \* ---- virtual memory manager (VirtualMemoryManager, TreeBestFitAlloc) ----
    kernel_alloc,   \* VirtualMemoryManager.kernel_alloc: the two trees of free ranges
    user_alloc,     \* VirtualMemoryManager.user_alloc
    page_table,     \* VirtualMemoryManager.page_table: tables and leaves of the window
    vmmPanicked,    \* the unwrap that stopped the kernel, "" while it runs
    vmmOut,         \* history: the ranges returned by alloc and not yet freed
    vmmOp,          \* history: the last operation, with the state it started from
    \* ---- heap allocator (Allocator, ThreadAllocator, Segment, PageMeta) ----
    segment_meta,   \* SegmentMeta of every initialised segment, by segment address
    page_meta,      \* PageMeta of every initialised page, by <<segment, page id>>
    pages,          \* ThreadAllocator.pages: the head of the page list of every class
    free_small_pages, \* ThreadAllocator.free_small_pages
    full_pages,     \* ThreadAllocator.full_pages
    delayed_free,   \* ThreadAllocator.delayed_free (atomic)
    mem,            \* FreeList.next of the blocks and segments that were written
    fs_ptr,         \* FreeSegments.ptr (atomic)
    fs_len,         \* FreeSegments.len (atomic)
    vmm,            \* Allocator.vmm and what the VMM can still hand out
    al,             \* the owning thread's position inside ThreadAllocator::alloc
    dl,             \* every foreign thread's position inside Allocator::dealloc
    halted,         \* the kernel has stopped on a panic or a fault
    live,           \* history: layout of every block returned and not yet deallocated
    hist            \* history: the last step's actor and result, the call counts, and
                    \* the blocks freed by foreign threads and not handed out again

pfaVars == <<free_list, map, pfaPanicked, pfaRegions, pfaOut, pfaOp, pfaAllocs,
             memory_regions, buddy_map>>

vmmVars == <<kernel_alloc, user_alloc, page_table, vmmPanicked, vmmOut, vmmOp>>

heapVars == <<segment_meta, page_meta, pages, free_small_pages, full_pages, delayed_free,
              mem, fs_ptr, fs_len, vmm, al, dl, halted, live, hist>>

vars == <<free_list, map, pfaPanicked, pfaRegions, pfaOut, pfaOp, pfaAllocs,
          memory_regions, buddy_map,
          kernel_alloc, user_alloc, page_table, vmmPanicked, vmmOut, vmmOp,
          segment_meta, page_meta, pages, free_small_pages, full_pages, delayed_free,
          mem, fs_ptr, fs_len, vmm, al, dl, halted, live, hist>>

(***************************************************************************)
(* Bounds of the model                                                     *)
(***************************************************************************)
\* free_region is called with end points among the first pages, 2 MiB and 4 MiB
MaxRegionPage == 3
\* number of free_region calls
MaxRegions == 2
\* number of alloc calls on the frame allocator
MaxPfaAllocs == 2
\* alloc is called with the orders ORDER_START .. ORDER_START + MaxOrderStep and 21
MaxOrderStep == 2
\* number of alloc calls on the heap
MaxHeapAllocs == 11
\* number of dealloc calls on the heap
MaxHeapDeallocs == 3
\* number of threads other than the owner of the thread allocator
NumForeign == 2
\* number of segments the VMM can map after the boot-time ones
VmmSegments == 1
\* dealloc is called on the blocks at the MaxFreeSlot lowest addresses of a page
\* when foreign threads run, and at the MaxFreeSlot highest ones (the first that
\* a fresh page hands out) when only the owner runs
MaxFreeSlot == 3
\* number of alloc calls on the heap while foreign threads run
MaxSharedAllocs == 10
\* the free-range tree alone is exercised on the first MaxTreePages pages
MaxTreePages == 9
\* number of ranges of the tree alone that are allocated and not yet freed
MaxTreeOut == 2
\* the 2 MiB regions of each half of the address space that the model follows
VmmWindowRegions == 4
\* number of calls of the manager after vmm::init
MaxVmmCalls == 3
\* calls of alloc in the model of the heap under a contended VMM mutex
MaxLockAllocs == 4
\* calls of dealloc in the model of a caller that gives back a whole page
MaxRetireDeallocs == 8
MaxEdgePage == 40
SeedPairs == 2
SeedTables == 3
MaxSeedAllocs == 2

(***************************************************************************)
(* Physical frame allocator: kernel/src/memory/pmm.rs, kernel/src/bitmap.rs *)
(***************************************************************************)
ORDER_START == 12
ORDER_END == 22
ORDERS == ORDER_START .. (ORDER_END - 1)
BITS == 64

\* memory_size handed to BuddyAllocator::new: one 4 MiB pair of top-order chunks
MemorySize == 2 ^ 22
\* the linear phys -> virt offset of the boot loader (never 0)
PhysOffset == 2 ^ 30

Max(a, b) == IF a < b THEN b ELSE a

Shr(x, n) == x \div (2 ^ n)
Shl(x, n) == x * (2 ^ n)

order_map_size(memory_size, order) == (Shr(memory_size, order + 1) + BITS - 1) \div BITS

\* Bitmap::split_bit: the word index and the bit inside the word
split_bit(bit) == <<bit \div BITS, bit % BITS>>

\* Bitmap::toggle on the bitmap of one order; an index past the slice panics
toggle_chunk_pair(st, order, bit) ==
    IF split_bit(bit)[1] >= order_map_size(st.memory_size, order)
    THEN [st EXCEPT !.panic = TRUE]
    ELSE [st EXCEPT !.mp[order] =
            IF bit \in @ THEN @ \ {bit} ELSE @ \cup {bit}]

is_chunk_pair_different(st, order, bit) == bit \in st.mp[order]

\* Buddy::push_free_list: a null virtual address is silently not pushed
push_free_list(st, order, virt) ==
    IF virt = 0 THEN st
    ELSE [st EXCEPT !.fl[order] = <<virt>> \o @]

\* BuddyAllocator::free: the loop over (order..) zipped with buddies[order..]
RECURSIVE FreeLoop(_, _, _, _)
FreeLoop(st, order, pair, addr) ==
    IF st.panic THEN st
    ELSE IF order >= ORDER_END
    THEN push_free_list(st, ORDER_END - 1, PhysOffset + addr)
    ELSE LET p == pair \div 2
             st1 == toggle_chunk_pair(st, order, p)
         IN  IF st1.panic THEN st1
             ELSE IF is_chunk_pair_different(st1, order, p)
             THEN push_free_list(st1, order, PhysOffset + addr)
             ELSE FreeLoop(st1, order + 1, p, addr)

\* st.log lists the (order, addr) arguments of the calls of free, in call order
BuddyFree(st, order, addr) ==
    IF st.panic THEN st
    ELSE IF addr % (2 ^ order) # 0
    THEN [st EXCEPT !.panic = TRUE, !.log = Append(@, <<order, addr>>)]
    ELSE FreeLoop([st EXCEPT !.log = Append(@, <<order, addr>>)],
                  order, Shr(addr, order), addr)

\* BuddyAllocator::free_region: the final loop at the top order
RECURSIVE FreeTop(_, _, _)
FreeTop(st, i, end) ==
    IF i >= end THEN st
    ELSE FreeTop(BuddyFree(st, ORDER_END - 1, Shl(i, ORDER_END - 1)), i + 1, end)

\* BuddyAllocator::free_region: the loop over ORDERS peeling the odd ends
RECURSIVE FreeRegionLoop(_, _, _, _)
FreeRegionLoop(st, order, start0, end0) ==
    IF order >= ORDER_END THEN FreeTop(st, start0, end0)
    ELSE LET start == start0 \div 2
             end == end0 \div 2
         IN  IF end <= start THEN FreeTop(st, start, end)
             ELSE LET st1 == IF start % 2 # 0
                             THEN BuddyFree(st, order, Shl(start, order)) ELSE st
                      start1 == IF start % 2 # 0 THEN start + 1 ELSE start
                      end1 == IF end % 2 # 0 THEN end - 1 ELSE end
                      st2 == IF end % 2 # 0
                             THEN BuddyFree(st1, order, Shl(end1, order)) ELSE st1
                 IN  FreeRegionLoop(st2, order + 1, start1, end1)

\* a variant of free_region that shifts the end points by ORDER_START, so that
\* the loop's first halving yields indices of 8 KiB chunks
BuddyFreeRegionHalved(st, start, end) ==
    IF start % (2 ^ ORDER_START) # 0 \/ end % (2 ^ ORDER_START) # 0
    THEN [st EXCEPT !.panic = TRUE]
    ELSE FreeRegionLoop(st, ORDER_START, Shr(start, ORDER_START), Shr(end, ORDER_START))

BuddyFreeRegion(st, start, end) ==
    IF start % (2 ^ ORDER_START) # 0 \/ end % (2 ^ ORDER_START) # 0
    THEN [st EXCEPT !.panic = TRUE]
    ELSE FreeRegionLoop(st, ORDER_START,
                        Shr(start, ORDER_START - 1), Shr(end, ORDER_START - 1))

\* a variant of the inner loop of alloc that toggles the pair bit only at the
\* order the chunk was popped from
AllocToggleTopOnly(st, order, buddy_order, addr) ==
    toggle_chunk_pair(st, buddy_order, Shr(addr, buddy_order + 1))

\* BuddyAllocator::alloc: the inner loop toggling the pair bit of every order
\* from the requested one up to the order the chunk was popped from
RECURSIVE AllocToggle(_, _, _, _)
AllocToggle(st, order, buddy_order, addr) ==
    IF order > buddy_order \/ st.panic THEN st
    ELSE AllocToggle(toggle_chunk_pair(st, order, Shr(addr, order + 1)),
                     order + 1, buddy_order, addr)

\* BuddyAllocator::alloc: the outer loop looking for a non-empty free list
RECURSIVE AllocLoop(_, _, _)
AllocLoop(st, order, buddy_order) ==
    IF buddy_order >= ORDER_END THEN [st |-> st, ok |-> FALSE, addr |-> 0, from |-> 0]
    ELSE IF st.fl[buddy_order] = <<>> THEN AllocLoop(st, order, buddy_order + 1)
    ELSE LET addr == Head(st.fl[buddy_order]) - PhysOffset
             st1 == [st EXCEPT !.fl[buddy_order] = Tail(@)]
         IN  [st |-> AllocToggle(st1, order, buddy_order, addr),
              ok |-> TRUE, addr |-> addr, from |-> buddy_order]

BuddyAlloc(st, order) ==
    IF order \notin ORDERS
    THEN [st |-> [st EXCEPT !.panic = TRUE], ok |-> FALSE, addr |-> 0, from |-> 0]
    ELSE AllocLoop(st, order, order)

PfaState ==
    [fl |-> free_list, mp |-> map, panic |-> pfaPanicked, log |-> <<>>,
     memory_size |-> MemorySize]

\* BuddyAllocator::new: empty free lists, zeroed bitmaps
PfaInit ==
    /\ free_list = [o \in ORDERS |-> <<>>]
    /\ map = [o \in ORDERS |-> {}]
    /\ pfaPanicked = FALSE
    /\ pfaRegions = {}
    /\ pfaOut = {}
    /\ pfaOp = [kind |-> "new"]
    /\ pfaAllocs = 0
    /\ memory_regions = <<>>
    /\ buddy_map = <<>>

\* the 4 KiB-aligned addresses within MaxEdgePage pages of the start of the
\* memory, of its 2 MiB mark and of its end
PageAddrs ==
    {k * (2 ^ ORDER_START) :
        k \in {m \in 0 .. Shr(MemorySize, ORDER_START) :
                 \E e \in {0, Shr(MemorySize, ORDER_START + 1), Shr(MemorySize, ORDER_START)} :
                    m - e <= MaxEdgePage /\ e - m <= MaxEdgePage}}

RegionEnds == {k * (2 ^ ORDER_START) : k \in 0 .. MaxRegionPage} \cup {2 ^ 21, 2 ^ 22}

AllocOrders == (ORDER_START .. (ORDER_START + MaxOrderStep)) \cup {ORDER_END - 1}

Overlap(a1, b1, a2, b2) == a1 < b2 /\ a2 < b1

PfaFreeRegion(start, end) ==
    /\ ~pfaPanicked
    /\ Cardinality(pfaRegions) < MaxRegions
    /\ start < end /\ end <= MemorySize
    /\ \A r \in pfaRegions : ~Overlap(start, end, r[1], r[2])
    /\ LET st == BuddyFreeRegion(PfaState, start, end)
       IN  /\ free_list' = st.fl
           /\ map' = st.mp
           /\ pfaPanicked' = st.panic
    /\ pfaRegions' = pfaRegions \cup {<<start, end>>}
    /\ pfaOp' = [kind |-> "free_region", start |-> start, end |-> end]
    /\ UNCHANGED <<pfaOut, pfaAllocs, memory_regions, buddy_map>>
    /\ UNCHANGED <<heapVars, vmmVars>>

PfaAlloc(order) ==
    /\ ~pfaPanicked
    /\ pfaAllocs < MaxPfaAllocs
    /\ pfaAllocs' = pfaAllocs + 1
    /\ LET r == BuddyAlloc(PfaState, order)
       IN  /\ free_list' = r.st.fl
           /\ map' = r.st.mp
           /\ pfaPanicked' = r.st.panic
           /\ pfaOut' = IF ~r.ok THEN pfaOut ELSE pfaOut \cup {<<order, r.addr>>}
           /\ pfaOp' = [kind |-> "alloc", order |-> order, ok |-> r.ok, result |-> r.addr,
                        from |-> r.from, fl |-> free_list, mp |-> map]
    /\ UNCHANGED <<pfaRegions, memory_regions, buddy_map>>
    /\ UNCHANGED <<heapVars, vmmVars>>

PfaFree(c) ==
    /\ ~pfaPanicked
    /\ c \in pfaOut
    /\ LET st == BuddyFree(PfaState, c[1], c[2])
       IN  /\ free_list' = st.fl
           /\ map' = st.mp
           /\ pfaPanicked' = st.panic
    /\ pfaOut' = pfaOut \ {c}
    /\ pfaOp' = [kind |-> "free", order |-> c[1], addr |-> c[2], mp |-> map]
    /\ UNCHANGED <<pfaRegions, pfaAllocs, memory_regions, buddy_map>>
    /\ UNCHANGED <<heapVars, vmmVars>>

\* free_region as the first call on a new allocator, for any pair of 4 KiB-aligned
\* end points inside the memory, the empty range included
FreeRegionCall(start, end) ==
    /\ pfaOp.kind = "new"
    /\ start <= end
    /\ \E st \in {BuddyFreeRegion(PfaState, start, end)} :
          /\ free_list' = st.fl
          /\ map' = st.mp
          /\ pfaPanicked' = st.panic
          /\ pfaOp' = [kind |-> "free_region", start |-> start, end |-> end,
                       chunks |-> st.log]
    /\ pfaRegions' = IF start < end THEN {<<start, end>>} ELSE {}
    /\ UNCHANGED <<pfaOut, pfaAllocs, memory_regions, buddy_map>>
    /\ UNCHANGED <<heapVars, vmmVars>>

RegionNext ==
    /\ pfaOp.kind = "new"
    /\ \E start \in PageAddrs, end \in PageAddrs : FreeRegionCall(start, end)

PfaNext ==
    \/ \E start \in RegionEnds, end \in RegionEnds : PfaFreeRegion(start, end)
    \/ \E order \in AllocOrders : PfaAlloc(order)
    \/ \E c \in pfaOut : PfaFree(c)


(***************************************************************************)
(* Boot of the frame allocator: pmm::init, called with the sorted memory   *)
(* map and memory_size of kernel/src/memory/mod.rs                         *)
(***************************************************************************)
\* regions that start below 1 MiB are ignored
LOW_MEMORY_END == 1048576

RoundUpPage(x) == ((x + 4095) \div 4096) * 4096
RoundDownPage(x) == (x \div 4096) * 4096

RECURSIVE SumOrders(_, _)
SumOrders(memory_size, order) ==
    IF order >= ORDER_END THEN 0
    ELSE order_map_size(memory_size, order) + SumOrders(memory_size, order + 1)

\* BuddyAllocator::buddy_map_len: the words of all bitmaps
buddy_map_len(memory_size) == SumOrders(memory_size, ORDER_START)

\* mem::size_of::<usize>() * buddy_map_len
BuddyMapBytes(memory_size) == 8 * buddy_map_len(memory_size)

\* the `continue` of both loops of pmm::init
RegionSkipped(r) == r.kind # "Usable" \/ r.start < LOW_MEMORY_END

\* memory::init: the end of the last usable region
RECURSIVE LastUsableEnd(_, _, _)
LastUsableEnd(regions, i, acc) ==
    IF i > Len(regions) THEN acc
    ELSE LastUsableEnd(regions, i + 1,
                       IF regions[i].kind = "Usable" THEN regions[i].end ELSE acc)

memory_size_of(regions) == LastUsableEnd(regions, 1, -1)

\* pmm::init, first loop: the start of the first run of adjacent usable
\* regions that can hold the buddy map, or -1 (phys_alloc.unwrap() panics)
RECURSIVE FindBuddyMap(_, _, _, _, _)
FindBuddyMap(regions, memory_size, i, start, end) ==
    IF i > Len(regions) THEN -1
    ELSE LET r == regions[i]
         IN  IF RegionSkipped(r)
             THEN FindBuddyMap(regions, memory_size, i + 1, start, end)
             ELSE LET start1 == IF end < r.start THEN RoundUpPage(r.start) ELSE start
                      end1 == r.end
                  IN  IF RoundUpPage(BuddyMapBytes(memory_size))
                            <= RoundDownPage(end1) - start1
                      THEN start1
                      ELSE FindBuddyMap(regions, memory_size, i + 1, start1, end1)

\* a variant of pmm::init that frees the run that holds the buddy map from its
\* first byte
SkipBuddyMapNever(start, buddy_map_start, memory_size) == start

\* pmm::init: the start of a run moves past the buddy map when the run holds it
SkipBuddyMap(start, buddy_map_start, memory_size) ==
    IF start = buddy_map_start
    THEN RoundDownPage(start + BuddyMapBytes(memory_size) + 4095)
    ELSE start

\* pmm::init, second loop and the free_region after it
RECURSIVE FreeRuns(_, _, _, _, _, _, _)
FreeRuns(st, regions, memory_size, buddy_map_start, i, start, end) ==
    IF i > Len(regions)
    THEN BuddyFreeRegion(st, SkipBuddyMap(start, buddy_map_start, memory_size), end)
    ELSE LET r == regions[i]
         IN  IF RegionSkipped(r)
             THEN FreeRuns(st, regions, memory_size, buddy_map_start, i + 1, start, end)
             ELSE IF end < r.start
             THEN FreeRuns(BuddyFreeRegion(st,
                               SkipBuddyMap(start, buddy_map_start, memory_size), end),
                           regions, memory_size, buddy_map_start, i + 1,
                           RoundUpPage(r.start), r.end)
             ELSE FreeRuns(st, regions, memory_size, buddy_map_start, i + 1, start, r.end)

EmptyPfa == [fl |-> [o \in ORDERS |-> <<>>], mp |-> [o \in ORDERS |-> {}], panic |-> FALSE,
             log |-> <<>>, memory_size |-> MemorySize]

pmm_init(regions, memory_size) ==
    LET buddy_map_start == FindBuddyMap(regions, memory_size, 1, 0, 0)
    IN  IF buddy_map_start < 0
        THEN [st |-> [EmptyPfa EXCEPT !.panic = TRUE], buddy_map |-> <<>>]
        ELSE [st |-> FreeRuns(EmptyPfa, regions, memory_size, buddy_map_start, 1, 0, 0),
              buddy_map |-> <<buddy_map_start,
                              buddy_map_start + BuddyMapBytes(memory_size)>>]

\* the end points of the regions of the boot loader's memory map
MapCuts == <<0, 651264, 1048576, 1052672, 1056768, 2097152, 4190208, 4194304>>

\* the sorted memory maps: every interval between two cuts is a region, usable
\* or reserved; the last one is usable, so that memory_size is MemorySize
MemoryMaps ==
    {[i \in 1 .. (Len(MapCuts) - 1) |->
        [start |-> MapCuts[i], end |-> MapCuts[i + 1], kind |-> k[i]]] :
     k \in {f \in [1 .. (Len(MapCuts) - 1) -> {"Usable", "Reserved"}] :
              f[Len(MapCuts) - 1] = "Usable"}}

\* the state at kernel entry: no allocator yet, the memory map of the machine
BootInit ==
    /\ free_list = [o \in ORDERS |-> <<>>]
    /\ map = [o \in ORDERS |-> {}]
    /\ pfaPanicked = FALSE
    /\ pfaRegions = {}
    /\ pfaOut = {}
    /\ pfaOp = [kind |-> "new"]
    /\ pfaAllocs = 0
    /\ memory_regions \in MemoryMaps
    /\ buddy_map = <<>>

PmmInit ==
    /\ ~pfaPanicked /\ buddy_map = <<>> /\ memory_regions # <<>>
    /\ memory_size_of(memory_regions) = MemorySize
    /\ LET r == pmm_init(memory_regions, memory_size_of(memory_regions))
       IN  /\ free_list' = r.st.fl
           /\ map' = r.st.mp
           /\ pfaPanicked' = r.st.panic
           /\ buddy_map' = r.buddy_map
    /\ pfaOp' = [kind |-> "init"]
    /\ UNCHANGED <<pfaRegions, pfaOut, pfaAllocs, memory_regions>>
    /\ UNCHANGED <<heapVars, vmmVars>>

BootAlloc(order) == buddy_map # <<>> /\ PfaAlloc(order)

BootFree(c) == buddy_map # <<>> /\ PfaFree(c)

BootNext ==
    \/ PmmInit
    \/ \E order \in AllocOrders : BootAlloc(order)
    \/ \E c \in pfaOut : BootFree(c)


(***************************************************************************)
(* Heap allocator: kernel/src/memory/malloc/mod.rs                         *)
(***************************************************************************)
SMALL_PAGE_SIZE == Shl(64, 10)
SEGMENT_SIZE == Shl(4, 20)

SMALL_SIZE_CLASSES ==
    <<8, 16, 32, 48, 64, 80, 96, 112, 128, 160, 192, 224, 256, 320, 384,
      448, 512, 640, 768, 896, 1024, 1280, 1536, 1792, 2048, 2560, 3072, 3584,
      4096, 5120, 6144, 7168, 8192>>
LARGE_SIZE_CLASSES ==
    <<10240, 12288, 14336, 16384, 20480, 24576, 28672, 32768, 40960, 49152, 57344,
      65536, 81920, 98304, 114688, 131072, 163840, 196608, 229376, 262144, 327680,
      393216, 458752, 524288>>
NUM_SIZE_CLASSES == Len(SMALL_SIZE_CLASSES) + Len(LARGE_SIZE_CLASSES)

\* classes are numbered from 0 as in the source
ClassSize(class) ==
    IF class < Len(SMALL_SIZE_CLASSES) THEN SMALL_SIZE_CLASSES[class + 1]
    ELSE LARGE_SIZE_CLASSES[class - Len(SMALL_SIZE_CLASSES) + 1]

LARGE_SIZE_CLASS_PAGE_STARTS(large_class) ==
    IF SEGMENT_SIZE % LARGE_SIZE_CLASSES[large_class + 1] = 0
    THEN LARGE_SIZE_CLASSES[large_class + 1]
    ELSE SEGMENT_SIZE % LARGE_SIZE_CLASSES[large_class + 1]

\* usize::BITS - size.leading_zeros()
RECURSIVE BitLength(_)
BitLength(n) == IF n = 0 THEN 0 ELSE 1 + BitLength(n \div 2)

\* a variant of size_class that shifts size instead of size - 1, so that a
\* request of exactly a class size above 64 lands in the class above
size_class_open(size) ==
    IF size <= 64
    THEN <<0, 0, 1, 2, 2, 3, 3, 4, 4>>[Shr(size + 7, 3) + 1]
    ELSE LET bits == BitLength(size)
         IN  4 * bits + Shr(size, bits - 3) - 27

size_class(size) ==
    IF size <= 64
    THEN <<0, 0, 1, 2, 2, 3, 3, 4, 4>>[Shr(size + 7, 3) + 1]
    ELSE LET bits == BitLength(size)
         IN  4 * bits + Shr(size - 1, bits - 3) - 27

\* layout.align_to(8).unwrap().pad_to_align().size()
PaddedSize(layout) ==
    LET a == IF layout.align < 8 THEN 8 ELSE layout.align
    IN  ((layout.size + a - 1) \div a) * a

\* ThreadFreeState and the tagged thread_free word
Normal == 0
Delaying == 1
Delayed == 3
\* PageMeta::split_thread_free: the state bits and the pointer bits of the word
TfState(word) == word % 4
TfPtr(word) == word - (word % 8)

NoPage == <<0, 0>>
\* what a prev_next pointer can point at: a list head or the next field of a page
HeadSlot(kind, class) == [kind |-> kind, class |-> class, page |-> NoPage]
NextSlot(page) == [kind |-> "page", class |-> 0, page |-> page]
Dangling == [kind |-> "dangling", class |-> 0, page |-> NoPage]

\* PageMeta::new
NewPageMeta(class, prev_next) ==
    [next |-> NoPage, prev_next |-> prev_next, free |-> 0, local_free |-> 0,
     thread_free |-> 0, used |-> 0, thread_freed |-> 0, is_full |-> FALSE,
     class |-> class]

\* Segment::from_ptr
SegmentOf(ptr) == ptr - (ptr % SEGMENT_SIZE)
\* Segment::small_page_start
small_page_start(page) == page[1] + SMALL_PAGE_SIZE * (1 + page[2])
\* Segment::block_small_page_id
block_small_page_id(block) == (block % SEGMENT_SIZE) \div SMALL_PAGE_SIZE - 1
\* the page of a block: seg.pages()[page_id] as dealloc and the drain look it up
PageOfBlock(sm, block) ==
    LET seg == SegmentOf(block)
    IN  <<seg, IF sm[seg].kind = "Small" THEN block_small_page_id(block) ELSE 0>>

\* a write of one word of memory
Wr(m, a, v) == [x \in DOMAIN m \cup {a} |-> IF x = a THEN v ELSE m[x]]

\* The owning thread's view of the heap, threaded through the helpers below
HeapState ==
    [pm |-> page_meta, sm |-> segment_meta, pages |-> pages, fsp |-> free_small_pages,
     full |-> full_pages, mem |-> mem, fs_ptr |-> fs_ptr, fs_len |-> fs_len, vmm |-> vmm]

SlotGet(h, slot) ==
    CASE slot.kind = "pages" -> h.pages[slot.class]
      [] slot.kind = "free_small_pages" -> h.fsp
      [] slot.kind = "full_pages" -> h.full
      [] slot.kind = "page" -> h.pm[slot.page].next

SlotSet(h, slot, v) ==
    CASE slot.kind = "pages" -> [h EXCEPT !.pages[slot.class] = v]
      [] slot.kind = "free_small_pages" -> [h EXCEPT !.fsp = v]
      [] slot.kind = "full_pages" -> [h EXCEPT !.full = v]
      [] slot.kind = "page" -> [h EXCEPT !.pm[slot.page].next = v]

\* a variant of push_page that does not redirect the prev_next of the old head
push_page_no_backlink(h, list, page) ==
    SlotSet([h EXCEPT !.pm[page].next = SlotGet(h, list), !.pm[page].prev_next = list],
            list, page)

push_page(h, list, page) ==
    LET head == SlotGet(h, list)
        h1 == IF head # NoPage
              THEN [h EXCEPT !.pm[head].prev_next = NextSlot(page)] ELSE h
        h2 == [h1 EXCEPT !.pm[page].next = head, !.pm[page].prev_next = list]
    IN  SlotSet(h2, list, page)

remove_page(h, page) ==
    LET next == h.pm[page].next
        prev_next == h.pm[page].prev_next
        h1 == SlotSet(h, prev_next, next)
    IN  IF next # NoPage THEN [h1 EXCEPT !.pm[next].prev_next = prev_next] ELSE h1

\* FreeSegments::push and pop, run by one thread at a time
fs_push(h, seg) ==
    [h EXCEPT !.mem = Wr(@, seg, h.fs_ptr), !.fs_ptr = seg, !.fs_len = @ + 1]

fs_pop(h) ==
    IF h.fs_ptr = 0 THEN [ok |-> FALSE, h |-> h, seg |-> 0]
    ELSE [ok |-> TRUE, seg |-> h.fs_ptr,
          h |-> [h EXCEPT !.fs_ptr = h.mem[h.fs_ptr], !.fs_len = @ - 1]]

free_small_page(h, page) ==
    LET seg == page[1]
        h1 == [h EXCEPT !.sm[seg].used = @ - 1]
    IN  IF h1.sm[seg].used = 0 THEN fs_push(h1, seg)
        ELSE push_page(h1, HeadSlot("free_small_pages", 0), page)

RECURSIVE find_page(_, _)
find_page(h, class) ==
    LET page == h.pages[class]
    IN  IF page = NoPage THEN [h |-> h, page |-> NoPage]
        ELSE IF h.pm[page].used = h.pm[page].thread_freed /\ h.pm[page].next # NoPage
        THEN LET h1 == remove_page(h, page)
             IN  find_page(IF Len(SMALL_SIZE_CLASSES) <= class
                           THEN fs_push(h1, page[1])
                           ELSE free_small_page(h1, page), class)
        ELSE [h |-> h, page |-> page]

\* a variant of the stride that writes one node more
StrideFreeOver(h, page, base, first, count, step) ==
    LET nodes == {base + first + k * step : k \in 0 .. count}
        old == h.pm[page].free
    IN  [h EXCEPT
           !.mem = [x \in DOMAIN @ \cup nodes |->
                      IF x \in nodes
                      THEN (IF x = base + first THEN old ELSE x - step)
                      ELSE @[x]],
           !.pm[page].free = base + first + count * step]

\* the free list written by striding the page body: every node points at the
\* node written before it, the first one at the old head
StrideFree(h, page, base, first, count, step) ==
    LET nodes == {base + first + k * step : k \in 0 .. (count - 1)}
        old == h.pm[page].free
    IN  [h EXCEPT
           !.mem = [x \in DOMAIN @ \cup nodes |->
                      IF x \in nodes
                      THEN (IF x = base + first THEN old ELSE x - step)
                      ELSE @[x]],
           !.pm[page].free = base + first + (count - 1) * step]

\* the pages of a fresh small segment, each written with PageMeta::new and
\* pushed on free_small_pages in the order of their ids: the list ends up
\* with the last page at its head and every page in front of the one before it
InitSmallPages(h, seg) ==
    LET n == SEGMENT_SIZE \div SMALL_PAGE_SIZE - 1
        new == {<<seg, id>> : id \in 0 .. (n - 1)}
        old == h.fsp
        meta(page) ==
            [NewPageMeta(0, Dangling) EXCEPT
               !.next = IF page[2] = 0 THEN old ELSE <<seg, page[2] - 1>>,
               !.prev_next = IF page[2] = n - 1 THEN HeadSlot("free_small_pages", 0)
                             ELSE NextSlot(<<seg, page[2] + 1>>)]
    IN  [h EXCEPT
           !.pm = [x \in DOMAIN @ \cup new |->
                     IF x \in new THEN meta(x)
                     ELSE IF x = old THEN [@[x] EXCEPT !.prev_next = NextSlot(<<seg, 0>>)]
                     ELSE @[x]],
           !.fsp = <<seg, n - 1>>]

WriteSegmentMeta(h, seg, kind) ==
    [h EXCEPT !.sm = [x \in DOMAIN @ \cup {seg} |->
                        IF x = seg THEN [thread_id |-> 0, kind |-> kind, used |-> 1]
                        ELSE @[x]]]

alloc_small_page(h, class) ==
    LET got == IF h.fsp # NoPage
               THEN [ok |-> TRUE,
                     h |-> [h EXCEPT !.sm[h.fsp[1]].used = @ + 1]]
               ELSE LET p == fs_pop(h)
                    IN  IF ~p.ok THEN [ok |-> FALSE, h |-> h]
                        ELSE [ok |-> TRUE,
                              h |-> InitSmallPages(WriteSegmentMeta(p.h, p.seg, "Small"),
                                                   p.seg)]
    IN  IF ~got.ok THEN [h |-> h, page |-> NoPage]
        ELSE LET page == got.h.fsp
                 h1 == remove_page(got.h, page)
                 h2 == push_page(h1, HeadSlot("pages", class), page)
                 h3 == [h2 EXCEPT !.pm[page].class = class]
                 cs == SMALL_SIZE_CLASSES[class + 1]
             IN  [h |-> StrideFree(h3, page, small_page_start(page), 0,
                                   (SMALL_PAGE_SIZE - cs) \div cs + 1, cs),
                  page |-> page]

alloc_large_page(h, class) ==
    LET large_class == class - Len(SMALL_SIZE_CLASSES)
        p == fs_pop(h)
    IN  IF ~p.ok THEN [h |-> h, page |-> NoPage]
        ELSE LET page == <<p.seg, 0>>
                 h1 == WriteSegmentMeta(p.h, p.seg, "Large")
                 h2 == [h1 EXCEPT !.pm = [x \in DOMAIN @ \cup {page} |->
                          IF x = page THEN NewPageMeta(class, Dangling) ELSE @[x]]]
                 first == LARGE_SIZE_CLASS_PAGE_STARTS(large_class)
                 step == LARGE_SIZE_CLASSES[large_class + 1]
                 h3 == StrideFree(h2, page, p.seg, first,
                                  (SEGMENT_SIZE - first + step - 1) \div step, step)
             IN  [h |-> push_page(h3, HeadSlot("pages", class), page), page |-> page]

local_free(h, class, page, ptr) ==
    LET h1 == IF h.pm[page].is_full
              THEN push_page(remove_page([h EXCEPT !.pm[page].is_full = FALSE], page),
                             HeadSlot("pages", class), page)
              ELSE h
    IN  [h1 EXCEPT !.mem = Wr(@, ptr, h1.pm[page].local_free),
                   !.pm[page].local_free = ptr]

\* a variant of fast_alloc that leaves the head of the free list in place
fast_alloc_stale(h, class) ==
    LET page == h.pages[class]
    IN  IF page = NoPage \/ h.pm[page].free = 0 THEN [ok |-> FALSE, h |-> h, ptr |-> 0]
        ELSE [ok |-> TRUE, ptr |-> h.pm[page].free,
              h |-> [h EXCEPT !.pm[page].used = @ + 1]]

fast_alloc(h, class) ==
    LET page == h.pages[class]
    IN  IF page = NoPage \/ h.pm[page].free = 0 THEN [ok |-> FALSE, h |-> h, ptr |-> 0]
        ELSE LET free == h.pm[page].free
             IN  [ok |-> TRUE, ptr |-> free,
                  h |-> [h EXCEPT !.pm[page].used = @ + 1,
                                  !.pm[page].free = h.mem[free]]]

\* Allocator::alloc, the 'alloc_segments block: at most 3 segments left and the
\* VMM is there; vmm.alloc is asked for segments until there are 4 or it fails.
\* vmm.calls counts the calls of vmm.alloc
RECURSIVE RefillLoop(_)
RefillLoop(h) ==
    IF h.vmm.pool = 0 THEN [h EXCEPT !.vmm.calls = @ + 1]
    ELSE LET h1 == fs_push([h EXCEPT !.vmm.pool = @ - 1,
                                     !.vmm.next = @ + SEGMENT_SIZE,
                                     !.vmm.calls = @ + 1], h.vmm.next)
         IN  IF 3 < h1.fs_len THEN h1 ELSE RefillLoop(h1)

\* the closure vmm() yields None when the VMM is not published yet or when
\* try_lock finds the mutex held; vmm.failed records the latter
alloc_segments(h) ==
    IF 3 < h.fs_len THEN h
    ELSE IF ~h.vmm.set THEN h
    ELSE IF h.vmm.locked THEN [h EXCEPT !.vmm.failed = TRUE]
    ELSE RefillLoop(h)

\* ThreadAllocator::alloc: the walk over the swapped-out delayed_free list
RECURSIVE Drain(_, _)
Drain(h, free) ==
    IF free = 0 THEN h
    ELSE LET next == h.mem[free]
             page == PageOfBlock(h.sm, free)
         IN  Drain(local_free(h, h.pm[page].class, page, free), next)

\* ThreadAllocator::alloc, one turn of the loop up to the CAS on thread_free:
\* find or make a page, then try its free list and its local_free list
SlowLoop(h, class) ==
    LET f == find_page(h, class)
        g == IF f.page # NoPage THEN f
             ELSE IF class < Len(SMALL_SIZE_CLASSES) THEN alloc_small_page(f.h, class)
             ELSE alloc_large_page(f.h, class)
    IN  IF g.page = NoPage
        THEN [status |-> "null", h |-> g.h, ptr |-> 0, page |-> NoPage]
        ELSE LET pg == g.h.pm[g.page]
             IN  IF pg.free # 0
                 THEN [status |-> "done", ptr |-> pg.free, page |-> g.page,
                       h |-> [g.h EXCEPT !.pm[g.page].used = @ + 1,
                                         !.pm[g.page].free = g.h.mem[pg.free]]]
                 ELSE IF pg.local_free # 0
                 THEN [status |-> "done", ptr |-> pg.local_free, page |-> g.page,
                       h |-> [g.h EXCEPT !.pm[g.page].local_free = 0,
                                         !.pm[g.page].used = @ + 1,
                                         !.pm[g.page].free = g.h.mem[pg.local_free]]]
                 ELSE [status |-> "cas", h |-> g.h, ptr |-> 0, page |-> g.page]

\* ThreadAllocator::alloc, the None arm: the page goes to the full list
MarkFull(h, page) ==
    push_page([remove_page(h, page) EXCEPT !.pm[page].is_full = TRUE],
              HeadSlot("full_pages", 0), page)

Foreign == 1 .. NumForeign
IdleDealloc == [pc |-> "idle", ptr |-> 0, page |-> NoPage, cur |-> 0, counter |-> 0]
IdleAlloc == [pc |-> "idle", class |-> 0, page |-> NoPage,
              layout |-> [size |-> 0, align |-> 0]]

\* Allocator::new and ThreadAllocator::new
HeapInit ==
    /\ segment_meta = [x \in {} |-> 0]
    /\ page_meta = [x \in {} |-> 0]
    /\ pages = [c \in 0 .. (NUM_SIZE_CLASSES - 1) |-> NoPage]
    /\ free_small_pages = NoPage
    /\ full_pages = NoPage
    /\ delayed_free = 0
    /\ mem = [x \in {} |-> 0]
    /\ fs_ptr = 0
    /\ fs_len = 0
    /\ vmm = [set |-> FALSE, pool |-> 0, next |-> 0, locked |-> FALSE,
              calls |-> 0, failed |-> FALSE]
    /\ al = IdleAlloc
    /\ dl = [t \in Foreign |-> IdleDealloc]
    /\ halted = FALSE
    /\ live = [x \in {} |-> 0]
    /\ hist = [actor |-> 0, op |-> "new", ptr |-> 0, dup |-> FALSE,
               allocs |-> 0, deallocs |-> 0, foreign_freed |-> {}]

Commit(h) ==
    /\ page_meta' = h.pm
    /\ segment_meta' = h.sm
    /\ pages' = h.pages
    /\ free_small_pages' = h.fsp
    /\ full_pages' = h.full
    /\ mem' = h.mem
    /\ fs_ptr' = h.fs_ptr
    /\ fs_len' = h.fs_len
    /\ vmm' = h.vmm

\* vmm::init: the loop that maps 4 MiB regions and pushes them as segments
\* until there are 4, and the call_once that publishes the VMM to the heap
RECURSIVE SeedSegments(_, _)
SeedSegments(h, k) ==
    IF 4 <= h.fs_len THEN h
    ELSE SeedSegments(fs_push(h, k * SEGMENT_SIZE), k + 1)

vmm_init ==
    /\ ~halted /\ ~vmm.set /\ al.pc = "idle"
    /\ LET h == SeedSegments(HeapState, 1)
       IN  Commit([h EXCEPT !.vmm = [set |-> TRUE, pool |-> VmmSegments,
                                     next |-> (h.fs_len + 1) * SEGMENT_SIZE,
                                     locked |-> FALSE, calls |-> 0, failed |-> FALSE]])
    /\ hist' = [hist EXCEPT !.actor = 0, !.op = "vmm_init"]
    /\ UNCHANGED <<delayed_free, al, dl, halted, live>>
    /\ UNCHANGED <<pfaVars, vmmVars>>

\* the end of Allocator::alloc: the pointer goes to the caller
Return(ptr, layout) ==
    /\ al' = IdleAlloc
    /\ live' = IF ptr = 0 THEN live
               ELSE [x \in DOMAIN live \cup {ptr} |-> IF x = ptr THEN layout ELSE live[x]]
    /\ hist' = [hist EXCEPT !.actor = 0, !.op = "alloc", !.ptr = ptr,
                            !.dup = (ptr \in DOMAIN live),
                            !.foreign_freed = @ \ {ptr},
                            !.allocs = IF al.pc = "idle" THEN @ + 1 ELSE @]

\* what follows a turn of the slow loop
Continue(r, layout, class) ==
    /\ Commit(r.h)
    /\ IF r.status = "cas"
       THEN /\ al' = [pc |-> "cas", class |-> class, page |-> r.page, layout |-> layout]
            /\ hist' = [hist EXCEPT !.actor = 0, !.op = "alloc_step",
                                    !.allocs = IF al.pc = "idle" THEN @ + 1 ELSE @]
            /\ UNCHANGED live
       ELSE Return(r.ptr, layout)

\* Allocator::alloc of the owning thread, up to its first CAS on a thread_free
\* word: fast_alloc, the segment refill, the swap and drain of delayed_free,
\* and the first turn of the slow loop
HeapAlloc(layout) ==
    /\ ~halted /\ al.pc = "idle"
    /\ hist.allocs < MaxHeapAllocs
    /\ PaddedSize(layout) <= LARGE_SIZE_CLASSES[Len(LARGE_SIZE_CLASSES)]
    /\ LET class == size_class(PaddedSize(layout))
           h0 == [HeapState EXCEPT !.vmm.calls = 0, !.vmm.failed = FALSE]
           fa == fast_alloc(h0, class)
       IN  IF fa.ok
           THEN /\ Commit(fa.h)
                /\ Return(fa.ptr, layout)
                /\ UNCHANGED delayed_free
           ELSE /\ delayed_free' = 0
                /\ Continue(SlowLoop(Drain(alloc_segments(h0), delayed_free), class),
                            layout, class)
    /\ UNCHANGED <<dl, halted>>
    /\ UNCHANGED <<pfaVars, vmmVars>>

\* a context takes VMM.lock() and is inside an operation of the manager, as
\* interrupts::init is inside map; the heap can be called meanwhile, by the
\* range trees of that operation or by another context
VmmLock ==
    /\ ~halted /\ vmm.set /\ ~vmm.locked
    /\ vmm' = [vmm EXCEPT !.locked = TRUE]
    /\ UNCHANGED <<segment_meta, page_meta, pages, free_small_pages, full_pages,
                   delayed_free, mem, fs_ptr, fs_len, al, dl, halted, live, hist>>
    /\ UNCHANGED <<pfaVars, vmmVars>>

\* the guard of VMM.lock() is dropped
VmmUnlock ==
    /\ ~halted /\ vmm.locked
    /\ vmm' = [vmm EXCEPT !.locked = FALSE]
    /\ UNCHANGED <<segment_meta, page_meta, pages, free_small_pages, full_pages,
                   delayed_free, mem, fs_ptr, fs_len, al, dl, halted, live, hist>>
    /\ UNCHANGED <<pfaVars, vmmVars>>

\* a variant of the owner's compare_exchange that compares the state bits only
AllocCasState ==
    /\ ~halted /\ al.pc = "cas"
    /\ IF TfState(page_meta[al.page].thread_free) = Normal
       THEN Continue(SlowLoop(MarkFull([HeapState EXCEPT
                                          !.pm[al.page].thread_free = Delayed], al.page),
                              al.class), al.layout, al.class)
       ELSE /\ al' = [al EXCEPT !.pc = "swap"]
            /\ hist' = [hist EXCEPT !.actor = 0, !.op = "alloc_step"]
            /\ UNCHANGED <<segment_meta, page_meta, pages, free_small_pages, full_pages,
                           mem, fs_ptr, fs_len, vmm, live>>
    /\ UNCHANGED <<delayed_free, dl, halted>>
    /\ UNCHANGED <<pfaVars, vmmVars>>

\* the owner's compare_exchange(Normal, Delayed) on the page's thread_free
AllocCas ==
    /\ ~halted /\ al.pc = "cas"
    /\ IF page_meta[al.page].thread_free = Normal
       THEN Continue(SlowLoop(MarkFull([HeapState EXCEPT
                                          !.pm[al.page].thread_free = Delayed], al.page),
                              al.class), al.layout, al.class)
       ELSE /\ al' = [al EXCEPT !.pc = "swap"]
            /\ hist' = [hist EXCEPT !.actor = 0, !.op = "alloc_step"]
            /\ UNCHANGED <<segment_meta, page_meta, pages, free_small_pages, full_pages,
                           mem, fs_ptr, fs_len, vmm, live>>
    /\ UNCHANGED <<delayed_free, dl, halted>>
    /\ UNCHANGED <<pfaVars, vmmVars>>

\* the owner's swap(Normal) after a failed CAS.  NonNull::new_unchecked of a
\* null list head is undefined: the build either takes the value for None
\* (the niche of Option<NonNull>) or stops on the precondition check or on the
\* read through the null pointer.
AllocSwap ==
    /\ ~halted /\ al.pc = "swap"
    /\ LET free == TfPtr(page_meta[al.page].thread_free)
           h == [HeapState EXCEPT !.pm[al.page].thread_free = Normal]
       IN  IF free # 0
           THEN /\ Commit([h EXCEPT !.pm[al.page].used = @ + 1,
                                    !.pm[al.page].free = h.mem[free]])
                /\ Return(free, al.layout)
                /\ UNCHANGED halted
           ELSE \/ /\ Continue(SlowLoop(MarkFull(h, al.page), al.class),
                               al.layout, al.class)
                   /\ UNCHANGED halted
                \/ /\ halted' = TRUE
                   /\ Commit(h)
                   /\ hist' = [hist EXCEPT !.actor = 0, !.op = "halt"]
                   /\ UNCHANGED <<al, live>>
    /\ UNCHANGED <<delayed_free, dl>>
    /\ UNCHANGED <<pfaVars, vmmVars>>

Forget(b) == [x \in DOMAIN live \ {b} |-> live[x]]

InFlight == {dl[t].ptr : t \in Foreign} \ {0}

\* the number of blocks that alloc_small_page and alloc_large_page write
BlocksPerPage(class) ==
    IF class < Len(SMALL_SIZE_CLASSES)
    THEN (SMALL_PAGE_SIZE - ClassSize(class)) \div ClassSize(class) + 1
    ELSE (SEGMENT_SIZE - LARGE_SIZE_CLASS_PAGE_STARTS(class - Len(SMALL_SIZE_CLASSES))
          + ClassSize(class) - 1) \div ClassSize(class)

\* the position of a block among the blocks of its page, by address
BlockSlot(b, class) ==
    IF class < Len(SMALL_SIZE_CLASSES)
    THEN (b % SMALL_PAGE_SIZE) \div ClassSize(class)
    ELSE ((b % SEGMENT_SIZE) - LARGE_SIZE_CLASS_PAGE_STARTS(class - Len(SMALL_SIZE_CLASSES)))
         \div ClassSize(class)

LayoutClass(layout) == size_class(PaddedSize(layout))

\* the blocks the callers pass to dealloc
Freeable ==
    {b \in DOMAIN live : BlockSlot(b, LayoutClass(live[b])) < MaxFreeSlot}

OwnerFreeable ==
    {b \in DOMAIN live :
        BlocksPerPage(LayoutClass(live[b])) - 1 - BlockSlot(b, LayoutClass(live[b]))
            < MaxFreeSlot}

\* Allocator::dealloc called by the thread that owns the segment
OwnerDealloc(b) ==
    /\ ~halted /\ al.pc = "idle"
    /\ b \in DOMAIN live
    /\ Commit(local_free(HeapState, size_class(PaddedSize(live[b])),
                         PageOfBlock(segment_meta, b), b))
    /\ live' = Forget(b)
    /\ hist' = [hist EXCEPT !.actor = 0, !.op = "dealloc", !.ptr = b,
                            !.deallocs = @ + 1]
    /\ UNCHANGED <<delayed_free, al, dl, halted>>
    /\ UNCHANGED <<pfaVars, vmmVars>>

\* Allocator::dealloc called by another thread: the first load of thread_free
ForeignDealloc(t, b) ==
    /\ ~halted /\ dl[t].pc = "idle"
    /\ b \in DOMAIN live
    /\ hist.deallocs < MaxHeapDeallocs
    /\ LET page == PageOfBlock(segment_meta, b)
       IN  dl' = [dl EXCEPT ![t] = [pc |-> "loop", ptr |-> b, page |-> page,
                                    cur |-> page_meta[page].thread_free,
                                    counter |-> 0]]
    /\ live' = Forget(b)
    /\ hist' = [hist EXCEPT !.actor = t, !.op = "dealloc", !.ptr = b,
                            !.deallocs = @ + 1, !.foreign_freed = @ \cup {b}]
    /\ UNCHANGED <<segment_meta, page_meta, pages, free_small_pages, full_pages,
                   delayed_free, mem, fs_ptr, fs_len, vmm, al, halted>>
    /\ UNCHANGED <<pfaVars, vmmVars>>

ForeignHist(t) == hist' = [hist EXCEPT !.actor = t, !.op = "dealloc_step"]

\* a variant of the Normal arm in which the foreign thread frees the block the
\* way the owner does, onto the page's local_free list
ForeignNormalLocal(t) ==
    /\ ~halted /\ dl[t].pc = "loop" /\ TfState(dl[t].cur) = Normal
    /\ Commit(local_free(HeapState, page_meta[dl[t].page].class, dl[t].page, dl[t].ptr))
    /\ dl' = [dl EXCEPT ![t] = IdleDealloc]
    /\ ForeignHist(t)
    /\ UNCHANGED <<delayed_free, al, halted, live>>
    /\ UNCHANGED <<pfaVars, vmmVars>>

\* state Normal: link the block in front of the list and CAS it in
ForeignNormal(t) ==
    /\ ~halted /\ dl[t].pc = "loop" /\ TfState(dl[t].cur) = Normal
    /\ mem' = Wr(mem, dl[t].ptr, TfPtr(dl[t].cur))
    /\ IF page_meta[dl[t].page].thread_free = dl[t].cur
       THEN /\ page_meta' = [page_meta EXCEPT ![dl[t].page].thread_free = dl[t].ptr]
            /\ dl' = [dl EXCEPT ![t] = IdleDealloc]
       ELSE /\ dl' = [dl EXCEPT ![t].cur = page_meta[dl[t].page].thread_free]
            /\ UNCHANGED page_meta
    /\ ForeignHist(t)
    /\ UNCHANGED <<segment_meta, pages, free_small_pages, full_pages, delayed_free,
                   fs_ptr, fs_len, vmm, al, halted, live>>
    /\ UNCHANGED <<pfaVars, vmmVars>>

\* state Delaying, fewer than 4 reads so far: read the word again
ForeignDelaying(t) ==
    /\ ~halted /\ dl[t].pc = "loop"
    /\ TfState(dl[t].cur) = Delaying /\ dl[t].counter < 4
    /\ dl' = [dl EXCEPT ![t].counter = @ + 1,
                        ![t].cur = page_meta[dl[t].page].thread_free]
    /\ ForeignHist(t)
    /\ UNCHANGED <<segment_meta, page_meta, pages, free_small_pages, full_pages,
                   delayed_free, mem, fs_ptr, fs_len, vmm, al, halted, live>>
    /\ UNCHANGED <<pfaVars, vmmVars>>

\* a variant of the Delayed arm that does not take a word in state Delaying
ForeignDelayedOnly(t) ==
    /\ ~halted /\ dl[t].pc = "loop"
    /\ TfState(dl[t].cur) = Delayed
    /\ IF page_meta[dl[t].page].thread_free = dl[t].cur
       THEN /\ page_meta' = [page_meta EXCEPT ![dl[t].page].thread_free = Delaying]
            /\ dl' = [dl EXCEPT ![t].pc = "df_load"]
       ELSE /\ dl' = [dl EXCEPT ![t].cur = page_meta[dl[t].page].thread_free]
            /\ UNCHANGED page_meta
    /\ ForeignHist(t)
    /\ UNCHANGED <<segment_meta, pages, free_small_pages, full_pages, delayed_free,
                   mem, fs_ptr, fs_len, vmm, al, halted, live>>
    /\ UNCHANGED <<pfaVars, vmmVars>>

\* state Delayed, or Delaying after 4 reads: CAS the word to Delaying
ForeignDelayed(t) ==
    /\ ~halted /\ dl[t].pc = "loop"
    /\ \/ TfState(dl[t].cur) = Delayed
       \/ TfState(dl[t].cur) = Delaying /\ dl[t].counter >= 4
    /\ IF page_meta[dl[t].page].thread_free = dl[t].cur
       THEN /\ page_meta' = [page_meta EXCEPT ![dl[t].page].thread_free = Delaying]
            /\ dl' = [dl EXCEPT ![t].pc = "df_load"]
       ELSE /\ dl' = [dl EXCEPT ![t].cur = page_meta[dl[t].page].thread_free]
            /\ UNCHANGED page_meta
    /\ ForeignHist(t)
    /\ UNCHANGED <<segment_meta, pages, free_small_pages, full_pages, delayed_free,
                   mem, fs_ptr, fs_len, vmm, al, halted, live>>
    /\ UNCHANGED <<pfaVars, vmmVars>>

\* ptr.next = alloc.delayed_free.load()
ForeignLoadDelayed(t) ==
    /\ ~halted /\ dl[t].pc = "df_load"
    /\ mem' = Wr(mem, dl[t].ptr, delayed_free)
    /\ dl' = [dl EXCEPT ![t].pc = "df_cas"]
    /\ ForeignHist(t)
    /\ UNCHANGED <<segment_meta, page_meta, pages, free_small_pages, full_pages,
                   delayed_free, fs_ptr, fs_len, vmm, al, halted, live>>
    /\ UNCHANGED <<pfaVars, vmmVars>>

\* alloc.delayed_free.compare_exchange(ptr.next, ptr)
ForeignPushDelayed(t) ==
    /\ ~halted /\ dl[t].pc = "df_cas"
    /\ IF delayed_free = mem[dl[t].ptr]
       THEN /\ delayed_free' = dl[t].ptr
            /\ dl' = [dl EXCEPT ![t].pc = "df_store"]
            /\ UNCHANGED mem
       ELSE /\ mem' = Wr(mem, dl[t].ptr, delayed_free)
            /\ UNCHANGED <<delayed_free, dl>>
    /\ ForeignHist(t)
    /\ UNCHANGED <<segment_meta, page_meta, pages, free_small_pages, full_pages,
                   fs_ptr, fs_len, vmm, al, halted, live>>
    /\ UNCHANGED <<pfaVars, vmmVars>>

\* page.thread_free.store(Normal)
ForeignStoreNormal(t) ==
    /\ ~halted /\ dl[t].pc = "df_store"
    /\ page_meta' = [page_meta EXCEPT ![dl[t].page].thread_free = Normal]
    /\ dl' = [dl EXCEPT ![t] = IdleDealloc]
    /\ ForeignHist(t)
    /\ UNCHANGED <<segment_meta, pages, free_small_pages, full_pages, delayed_free,
                   mem, fs_ptr, fs_len, vmm, al, halted, live>>
    /\ UNCHANGED <<pfaVars, vmmVars>>

\* the layouts the callers ask for
HeapLayouts == {[size |-> 8192, align |-> 8], [size |-> 300000, align |-> 65536]}

HeapNext ==
    \/ vmm_init
    \/ \E layout \in HeapLayouts : hist.allocs < MaxSharedAllocs /\ HeapAlloc(layout)
    \/ AllocCas
    \/ AllocSwap
    \/ \E b \in Freeable : hist.deallocs < MaxHeapDeallocs /\ OwnerDealloc(b)
    \/ \E t \in Foreign, b \in Freeable : ForeignDealloc(t, b)
    \/ \E t \in Foreign : ForeignNormal(t)
    \/ \E t \in Foreign : ForeignDelaying(t)
    \/ \E t \in Foreign : ForeignDelayed(t)
    \/ \E t \in Foreign : ForeignLoadDelayed(t)
    \/ \E t \in Foreign : ForeignPushDelayed(t)
    \/ \E t \in Foreign : ForeignStoreNormal(t)

\* the layouts asked for when only the owning thread runs
OwnerLayouts ==
    {[size |-> 8000, align |-> 4096], [size |-> 300000, align |-> 65536]}

OwnerNext ==
    \/ vmm_init
    \/ \E layout \in OwnerLayouts : HeapAlloc(layout)
    \/ AllocCas
    \/ AllocSwap
    \/ \E b \in OwnerFreeable : hist.deallocs < MaxHeapDeallocs /\ OwnerDealloc(b)

\* the owning thread alone, asking for blocks of one class and giving back
\* the block of the highest address first
RetireNext ==
    \/ vmm_init
    \/ HeapAlloc([size |-> 8000, align |-> 4096])
    \/ AllocCas
    \/ AllocSwap
    \/ \E b \in DOMAIN live :
          /\ hist.deallocs < MaxRetireDeallocs
          /\ \A c \in DOMAIN live : c <= b
          /\ OwnerDealloc(b)

\* the owning thread alone, asking for blocks of three classes, with the VMM
\* mutex taken and dropped around it
LockNext ==
    \/ vmm_init
    \/ \E layout \in {[size |-> 5000, align |-> 8], [size |-> 8000, align |-> 4096],
                        [size |-> 300000, align |-> 65536]} :
          hist.allocs < MaxLockAllocs /\ HeapAlloc(layout)
    \/ \E b \in OwnerFreeable : hist.deallocs < MaxHeapDeallocs /\ OwnerDealloc(b)
    \/ VmmLock
    \/ VmmUnlock

(***************************************************************************)
(* Virtual memory manager: kernel/src/memory/vmm.rs                        *)
(***************************************************************************)
PAGE_SIZE == 4096
HUGE_PAGE_SIZE == 2097152

\* x + a - 1 & !(a - 1) for a power of two a
AlignUp(x, a) == ((x + a - 1) \div a) * a
\* x & !(a - 1)
AlignDown(x, a) == (x \div a) * a

\* BTreeMap::remove on the addr -> size map
MapRemove(f, k) == [x \in DOMAIN f \ {k} |-> f[x]]

\* TreeBestFitAlloc::new
EmptyTree == [addr_size_tree |-> [x \in {} |-> 0], size_addr_tree |-> {}]

\* the derived Ord of SizeAddr: by size, then by addr
SizeAddrLe(e, f) == e[1] < f[1] \/ (e[1] = f[1] /\ e[2] <= f[2])

\* size_addr_tree.range(SizeAddr::new(free_size, 0)..).next()
FirstFit(t, free_size) ==
    LET cands == {e \in t.size_addr_tree : SizeAddrLe(<<free_size, 0>>, e)}
    IN  IF cands = {} THEN <<>>
        ELSE CHOOSE e \in cands : \A f \in cands : SizeAddrLe(e, f)

\* a variant of alloc that asks for a free range of the rounded size only
FreeSizeUnpadded(size, align_order) == AlignUp(size, PAGE_SIZE)

\* the size of the free range that alloc asks for
FreeSizeNeeded(size, align_order) ==
    LET size1 == AlignUp(size, PAGE_SIZE)
        align == Max(2 ^ align_order, PAGE_SIZE)
    IN  Max(size1, align) + align - PAGE_SIZE

\* TreeBestFitAlloc::alloc; get_mut(..).unwrap() panics when the addr -> size
\* map has no entry at the address of the chosen range
TreeBestFitAlloc_alloc(t, size0, align_order) ==
    LET size == AlignUp(size0, PAGE_SIZE)
        align == Max(2 ^ align_order, PAGE_SIZE)
        entry == FirstFit(t, FreeSizeNeeded(size0, align_order))
    IN  IF entry = <<>>
        THEN [ok |-> FALSE, t |-> t, size |-> 0, addr |-> 0, entry |-> <<>>, panic |-> FALSE]
        ELSE LET addr == AlignUp(entry[2], align)
                 before_size == addr - entry[2]
                 panic == 0 < before_size /\ entry[2] \notin DOMAIN t.addr_size_tree
                 sat1 == t.size_addr_tree \ {entry}
                 sat2 == IF 0 < before_size THEN sat1 \cup {<<before_size, entry[2]>>}
                         ELSE sat1
                 ast2 == IF panic THEN t.addr_size_tree
                         ELSE IF 0 < before_size
                         THEN [t.addr_size_tree EXCEPT ![entry[2]] = before_size]
                         ELSE MapRemove(t.addr_size_tree, entry[2])
                 after_size == entry[1] - before_size - size
                 sat3 == IF 0 < after_size THEN sat2 \cup {<<after_size, addr + size>>}
                         ELSE sat2
                 ast3 == IF 0 < after_size THEN Wr(ast2, addr + size, after_size)
                         ELSE ast2
             IN  IF panic
                 THEN [ok |-> FALSE, t |-> [addr_size_tree |-> ast2, size_addr_tree |-> sat2],
                       size |-> 0, addr |-> 0, entry |-> entry, panic |-> TRUE]
                 ELSE [ok |-> TRUE, t |-> [addr_size_tree |-> ast3, size_addr_tree |-> sat3],
                       size |-> size, addr |-> addr, entry |-> entry, panic |-> FALSE]

\* addr_size_tree.range(..addr).next_back(): the greatest key below addr, or -1
PrevKey(ast, addr) ==
    LET below == {a \in DOMAIN ast : a < addr}
    IN  IF below = {} THEN -1 ELSE CHOOSE a \in below : \A b \in below : b <= a

\* TreeBestFitAlloc::free
TreeBestFitAlloc_free(t, addr0, size0) ==
    LET addr1 == AlignDown(addr0, PAGE_SIZE)
        size1 == AlignUp(size0, PAGE_SIZE)
        prev_addr == PrevKey(t.addr_size_tree, addr1)
        left == prev_addr >= 0 /\ addr1 <= prev_addr + t.addr_size_tree[prev_addr]
        prev_size == IF left THEN t.addr_size_tree[prev_addr] ELSE 0
        ast1 == IF left THEN MapRemove(t.addr_size_tree, prev_addr) ELSE t.addr_size_tree
        sat1 == IF left THEN t.size_addr_tree \ {<<prev_size, prev_addr>>}
                ELSE t.size_addr_tree
        size2 == IF left THEN Max(prev_size, (addr1 - prev_addr) + size1) ELSE size1
        addr2 == IF left THEN prev_addr ELSE addr1
        right == (addr2 + size2) \in DOMAIN ast1
        next_size == IF right THEN ast1[addr2 + size2] ELSE 0
        ast2 == IF right THEN MapRemove(ast1, addr2 + size2) ELSE ast1
        sat2 == IF right THEN sat1 \ {<<next_size, addr2 + size2>>} ELSE sat1
        size3 == size2 + next_size
    IN  [addr_size_tree |-> Wr(ast2, addr2, size3),
         size_addr_tree |-> sat2 \cup {<<size3, addr2>>}]

\* VirtualMemoryManager::new
VmmNew ==
    /\ kernel_alloc = EmptyTree
    /\ user_alloc = EmptyTree
    /\ page_table = [tables |-> {}, small |-> {}, huge |-> {}]
    /\ vmmPanicked = ""
    /\ vmmOut = {}
    /\ vmmOp = [kind |-> "new"]

\* ---- the free-range tree alone --------------------------------------------
\* the calls alloc.free(start, size) of vmm::init: the runs of unused
\* page-table entries, in ascending order of address
TreeSeed(addr, size) ==
    /\ vmmPanicked = "" /\ vmmOp.kind \in {"new", "seed"}
    /\ 0 < size /\ addr + size <= MaxTreePages * PAGE_SIZE
    /\ \A a \in DOMAIN kernel_alloc.addr_size_tree :
          a + kernel_alloc.addr_size_tree[a] <= addr
    /\ kernel_alloc' = TreeBestFitAlloc_free(kernel_alloc, addr, size)
    /\ vmmOp' = [kind |-> "seed"]
    /\ UNCHANGED <<user_alloc, page_table, vmmPanicked, vmmOut>>
    /\ UNCHANGED <<pfaVars, heapVars>>

TreeAlloc(size, align_order) ==
    /\ vmmPanicked = ""
    /\ Cardinality(vmmOut) < MaxTreeOut
    /\ LET r == TreeBestFitAlloc_alloc(kernel_alloc, size, align_order)
       IN  /\ kernel_alloc' = r.t
           /\ vmmPanicked' = IF r.panic THEN "get_mut" ELSE ""
           /\ vmmOut' = IF r.ok THEN vmmOut \cup {<<r.addr, r.size>>} ELSE vmmOut
           /\ vmmOp' = [kind |-> "alloc", size |-> size, align_order |-> align_order,
                        ok |-> r.ok, addr |-> r.addr, padded |-> r.size,
                        entry |-> r.entry, pre |-> kernel_alloc]
    /\ UNCHANGED <<user_alloc, page_table>>
    /\ UNCHANGED <<pfaVars, heapVars>>

\* alloc of no bytes
TreeAllocZero(align_order) ==
    /\ vmmPanicked = "" /\ vmmOp.kind # "new"
    /\ LET r == TreeBestFitAlloc_alloc(kernel_alloc, 0, align_order)
       IN  /\ kernel_alloc' = r.t
           /\ vmmPanicked' = IF r.panic THEN "get_mut" ELSE ""
           /\ vmmOp' = [kind |-> "alloc_zero", size |-> 0, align_order |-> align_order,
                        ok |-> r.ok, addr |-> r.addr, padded |-> r.size,
                        entry |-> r.entry, pre |-> kernel_alloc]
    /\ UNCHANGED <<user_alloc, page_table, vmmOut>>
    /\ UNCHANGED <<pfaVars, heapVars>>

\* free of a range that alloc returned
TreeFree(c) ==
    /\ vmmPanicked = "" /\ c \in vmmOut
    /\ kernel_alloc' = TreeBestFitAlloc_free(kernel_alloc, c[1], c[2])
    /\ vmmOut' = vmmOut \ {c}
    /\ vmmOp' = [kind |-> "free", addr |-> c[1], size |-> c[2], pre |-> kernel_alloc]
    /\ UNCHANGED <<user_alloc, page_table, vmmPanicked>>
    /\ UNCHANGED <<pfaVars, heapVars>>

\* free of any range of pages, free already or not
TreeFreeAny(addr, size) ==
    /\ vmmPanicked = "" /\ vmmOp.kind # "new"
    /\ 0 < size /\ addr + size <= MaxTreePages * PAGE_SIZE
    /\ kernel_alloc' = TreeBestFitAlloc_free(kernel_alloc, addr, size)
    /\ vmmOut' = {c \in vmmOut : ~Overlap(c[1], c[1] + c[2], addr, addr + size)}
    /\ vmmOp' = [kind |-> "free_any", addr |-> addr, size |-> size, pre |-> kernel_alloc]
    /\ UNCHANGED <<user_alloc, page_table, vmmPanicked>>
    /\ UNCHANGED <<pfaVars, heapVars>>

\* the calls on the tree: seeding over whole pages, alloc of a few sizes and
\* alignments, free of what alloc returned
TreeNext ==
    \/ \E a \in 0 .. MaxTreePages, n \in 0 .. MaxTreePages :
          TreeSeed(a * PAGE_SIZE, n * PAGE_SIZE)
    \/ \E size \in {4096, 5000, 12288}, align_order \in {3, 13} :
          TreeAlloc(size, align_order)
    \/ \E c \in vmmOut : TreeFree(c)

\* the same calls, ended by one alloc of size 0
TreeZeroNext ==
    \/ vmmOp.kind # "alloc_zero" /\ TreeNext
    \/ \E align_order \in {3, 13} :
          vmmOp.kind # "alloc_zero" /\ TreeAllocZero(align_order)

\* the same calls, ended by one free of any range of pages
TreeAnyNext ==
    \/ vmmOp.kind # "free_any" /\ TreeNext
    \/ \E a \in 0 .. MaxTreePages, n \in 0 .. MaxTreePages :
          vmmOp.kind # "free_any" /\ TreeFreeAny(a * PAGE_SIZE, n * PAGE_SIZE)

\* ---- the manager: trees, page table and frame allocator --------------------
\* The model follows a window of VmmWindowRegions 2 MiB regions of each half of
\* the address space, all under one level-2 table that exists; the boot loader
\* has mapped the rest of the half.  A virtual address is the pair of its half
\* (kernel or not) and its offset from the start of the window; a tree key is
\* the offset.
\* usize arithmetic without overflow checks wraps at 2^64; the model wraps at
\* a modulus that is likewise far above every size and address of the window
UsizeWrap == 2 ^ 30

\* the manager as a value: the operators below take it and return it; log
\* holds the leaves that the call has written, as <<half, address, frame, size>>
VmmState ==
    [kernel_alloc |-> kernel_alloc, user_alloc |-> user_alloc,
     page_table |-> page_table, frame_allocator |-> PfaState,
     panic |-> vmmPanicked, oom |-> FALSE, log |-> {}]

\* Mapper<Size4KiB>::map_to as page_map calls it: the level-2 entry must not be
\* a huge page, a missing level-1 table takes a frame of the allocator, and the
\* level-1 entry must be unused
page_map_4k(v, kernel, addr, frame) ==
    LET region == <<kernel, AlignDown(addr, HUGE_PAGE_SIZE)>>
        f == BuddyAlloc(v.frame_allocator, ORDER_START)
    IN  IF region \in v.page_table.huge THEN [v EXCEPT !.panic = "ParentEntryHugePage"]
        ELSE IF region \notin v.page_table.tables /\ ~f.ok
        THEN [v EXCEPT !.oom = TRUE, !.panic = "FrameAllocationFailed"]
        ELSE LET v1 == IF region \in v.page_table.tables THEN v
                       ELSE [v EXCEPT !.frame_allocator = f.st,
                                      !.page_table.tables = @ \cup {region}]
             IN  IF <<kernel, addr>> \in v1.page_table.small
                 THEN [v1 EXCEPT !.panic = "PageAlreadyMapped"]
                 ELSE [v1 EXCEPT !.page_table.small = @ \cup {<<kernel, addr>>},
                                 !.log = @ \cup {<<kernel, addr, frame, PAGE_SIZE>>}]

\* Mapper<Size2MiB>::map_to as page_map calls it: the level-2 entry must be
\* unused, and an entry that holds a level-1 table is not
page_map_2m(v, kernel, addr, frame) ==
    IF <<kernel, addr>> \in v.page_table.huge \cup v.page_table.tables
    THEN [v EXCEPT !.panic = "PageAlreadyMapped"]
    ELSE [v EXCEPT !.page_table.huge = @ \cup {<<kernel, addr>>},
                   !.log = @ \cup {<<kernel, addr, frame, HUGE_PAGE_SIZE>>}]

\* one turn of a 4 KiB loop of alloc (given < 0, the frame comes from the
\* allocator) or of map (given is the physical address of the frame)
MapStep4k(v, kernel, addr, given) ==
    LET f == BuddyAlloc(v.frame_allocator, ORDER_START)
    IN  IF given < 0 /\ ~f.ok THEN [v |-> [v EXCEPT !.oom = TRUE], none |-> TRUE]
        ELSE IF given < 0
        THEN [v |-> page_map_4k([v EXCEPT !.frame_allocator = f.st], kernel, addr, f.addr),
              none |-> FALSE]
        ELSE [v |-> page_map_4k(v, kernel, addr, given), none |-> FALSE]

\* one turn of the 2 MiB loop: alloc takes its frame through
\* PhysFrame::from_start_address(..).unwrap(), map through
\* from_start_address_unchecked
MapStep2m(v, kernel, addr, given) ==
    LET f == BuddyAlloc(v.frame_allocator, ORDER_END - 1)
    IN  IF given < 0 /\ ~f.ok THEN [v |-> [v EXCEPT !.oom = TRUE], none |-> TRUE]
        ELSE IF given < 0 /\ f.addr % HUGE_PAGE_SIZE # 0
        THEN [v |-> [v EXCEPT !.frame_allocator = f.st, !.panic = "AddressNotAligned"],
              none |-> FALSE]
        ELSE IF given < 0
        THEN [v |-> page_map_2m([v EXCEPT !.frame_allocator = f.st], kernel, addr, f.addr),
              none |-> FALSE]
        ELSE [v |-> page_map_2m(v, kernel, addr, given), none |-> FALSE]

\* the three loops of alloc and of map: 4 KiB pages up to a 2 MiB boundary,
\* 2 MiB pages, 4 KiB pages for the rest
RECURSIVE MapLoops(_, _, _, _, _, _)
MapLoops(v, kernel, addr, size, phase, given) ==
    LET small == \/ phase = 1 /\ 0 < size /\ addr % HUGE_PAGE_SIZE # 0
                 \/ phase = 3 /\ 0 < size
        huge == phase = 2 /\ HUGE_PAGE_SIZE <= size
        s == IF small THEN MapStep4k(v, kernel, addr, given)
             ELSE MapStep2m(v, kernel, addr, given)
        step == IF small THEN PAGE_SIZE ELSE HUGE_PAGE_SIZE
    IN  IF small \/ huge
        THEN IF s.none \/ s.v.panic # "" THEN [v |-> s.v, ok |-> FALSE]
             ELSE MapLoops(s.v, kernel, addr + step, size - step, phase,
                           IF given < 0 THEN given ELSE given + step)
        ELSE IF phase < 3 THEN MapLoops(v, kernel, addr, size, phase + 1, given)
        ELSE [v |-> v, ok |-> TRUE]

\* the tree of a half
TreeOf(v, kernel) == IF kernel THEN v.kernel_alloc ELSE v.user_alloc

WithTree(v, kernel, t) ==
    IF kernel THEN [v EXCEPT !.kernel_alloc = t] ELSE [v EXCEPT !.user_alloc = t]

\* VirtualMemoryManager::alloc
VirtualMemoryManager_alloc(v, kernel, size, align_order) ==
    LET r == TreeBestFitAlloc_alloc(TreeOf(v, kernel), size, align_order)
        m == MapLoops(WithTree(v, kernel, r.t), kernel, r.addr, r.size, 1, -1)
    IN  IF r.panic THEN [v |-> [v EXCEPT !.panic = "get_mut"], ok |-> FALSE, addr |-> 0]
        ELSE IF ~r.ok THEN [v |-> v, ok |-> FALSE, addr |-> 0]
        ELSE [v |-> m.v, ok |-> m.ok, addr |-> r.addr]

\* VirtualMemoryManager::map
VirtualMemoryManager_map(v, kernel, size, align_order, phys_addr) ==
    LET addr_offset == phys_addr % PAGE_SIZE
        r == TreeBestFitAlloc_alloc(TreeOf(v, kernel), size + addr_offset, align_order)
        m == MapLoops(WithTree(v, kernel, r.t), kernel, r.addr, r.size, 1,
                      phys_addr - addr_offset)
    IN  IF r.panic THEN [v |-> [v EXCEPT !.panic = "get_mut"], ok |-> FALSE, addr |-> 0]
        ELSE IF ~r.ok THEN [v |-> v, ok |-> FALSE, addr |-> 0]
        ELSE [v |-> m.v, ok |-> m.ok, addr |-> r.addr + addr_offset]

\* Mapper<Size4KiB>::unmap behind Page::from_start_address(addr).unwrap()
unmap_4k(v, kernel, addr) ==
    IF addr % PAGE_SIZE # 0 THEN [v EXCEPT !.panic = "AddressNotAligned"]
    ELSE IF <<kernel, AlignDown(addr, HUGE_PAGE_SIZE)>> \in v.page_table.huge
    THEN [v EXCEPT !.panic = "ParentEntryHugePage"]
    ELSE IF <<kernel, addr>> \notin v.page_table.small THEN [v EXCEPT !.panic = "PageNotMapped"]
    ELSE [v EXCEPT !.page_table.small = @ \ {<<kernel, addr>>}]

\* Mapper<Size2MiB>::unmap
unmap_2m(v, kernel, addr) ==
    IF <<kernel, addr>> \in v.page_table.huge
    THEN [v EXCEPT !.page_table.huge = @ \ {<<kernel, addr>>}]
    ELSE IF <<kernel, addr>> \in v.page_table.tables THEN [v EXCEPT !.panic = "ParentEntryHugePage"]
    ELSE [v EXCEPT !.panic = "PageNotMapped"]

\* the three loops of free.  size -= PAGE_SIZE on a size below PAGE_SIZE
\* panics in a build with overflow checks and wraps in a build without
RECURSIVE UnmapLoops(_, _, _, _, _, _)
UnmapLoops(v, kernel, addr, size, phase, checked) ==
    LET small == \/ phase = 1 /\ 0 < size /\ addr % HUGE_PAGE_SIZE # 0
                 \/ phase = 3 /\ 0 < size
        huge == phase = 2 /\ HUGE_PAGE_SIZE <= size
        u == IF small THEN unmap_4k(v, kernel, addr) ELSE unmap_2m(v, kernel, addr)
        step == IF small THEN PAGE_SIZE ELSE HUGE_PAGE_SIZE
    IN  IF small \/ huge
        THEN IF u.panic # "" THEN u
             ELSE IF size < step
             THEN IF checked THEN [u EXCEPT !.panic = "subtract with overflow"]
                  ELSE UnmapLoops(u, kernel, addr + step, size - step + UsizeWrap,
                                  phase, checked)
             ELSE UnmapLoops(u, kernel, addr + step, size - step, phase, checked)
        ELSE IF phase < 3 THEN UnmapLoops(v, kernel, addr, size, phase + 1, checked)
        ELSE v

\* a variant of free that hands the frame of the first page of the range
\* back to the frame allocator
VirtualMemoryManager_free_dealloc(v, kernel, addr, size, checked) ==
    LET u == UnmapLoops(WithTree(v, kernel,
                                 TreeBestFitAlloc_free(TreeOf(v, kernel), addr, size)),
                        kernel, addr, size, 1, checked)
    IN  [u EXCEPT !.frame_allocator = BuddyFree(@, ORDER_START, PAGE_SIZE)]

\* VirtualMemoryManager::free.  kernel is kernel_start <= addr; a range of
\* the user window ends far below kernel_start
VirtualMemoryManager_free(v, kernel, addr, size, checked) ==
    UnmapLoops(WithTree(v, kernel, TreeBestFitAlloc_free(TreeOf(v, kernel), addr, size)),
               kernel, addr, size, 1, checked)

\* init::free_page_table over a level-1 table: the runs of its unused
\* entries, as <<start, size>>: a run
\* starts at the first entry or behind a used one and ends before the next used
\* entry or with the table
UnusedRuns(pt, kernel, table) ==
    LET used == {p[2] : p \in {q \in pt.small :
                                  q[1] = kernel /\ AlignDown(q[2], HUGE_PAGE_SIZE) = table}}
        starts == (({table} \cup {a + PAGE_SIZE : a \in used}) \ used)
                     \ {table + HUGE_PAGE_SIZE}
        stop(st) == LET after == {a \in used : a > st} \cup {table + HUGE_PAGE_SIZE}
                    IN  CHOOSE e \in after : \A x \in after : e <= x
    IN  {<<st, stop(st) - st>> : st \in starts}

\* alloc.free(start, size) for every run, in ascending order of address
RECURSIVE FreeRunsOf(_, _)
FreeRunsOf(t, runs) ==
    IF runs = {} THEN t
    ELSE LET r == CHOOSE x \in runs : \A y \in runs : x[1] <= y[1]
         IN  FreeRunsOf(TreeBestFitAlloc_free(t, r[1], r[2]), runs \ {r})

\* init::free_page_table over the level-2 entries of the window
RECURSIVE free_page_table_2(_, _, _, _, _)
free_page_table_2(t, pt, kernel, i, run_start) ==
    LET addr == i * HUGE_PAGE_SIZE
        t1 == IF run_start < 0 THEN t
              ELSE TreeBestFitAlloc_free(t, run_start, addr - run_start)
    IN  IF i = VmmWindowRegions THEN t1
        ELSE IF <<kernel, addr>> \notin pt.huge \cup pt.tables
        THEN free_page_table_2(t, pt, kernel, i + 1,
                               IF run_start < 0 THEN addr ELSE run_start)
        ELSE IF <<kernel, addr>> \in pt.huge
        THEN free_page_table_2(t1, pt, kernel, i + 1, -1)
        ELSE free_page_table_2(FreeRunsOf(t1, UnusedRuns(pt, kernel, addr)),
                               pt, kernel, i + 1, -1)

\* the level-2 entries of a window as the boot loader and the segment loop of
\* vmm::init leave them: "u" unused, "h" a 2 MiB page, "t" a level-1 table
\* whose second page is mapped, "e" a level-1 table with no page mapped
\* of the kernel half and of the user half
BootLayouts ==
    {<<(<<"u", "u", "u", "u">>), (<<"u", "u", "u", "u">>)>>,
     <<(<<"h", "h", "u", "u">>), (<<"t", "u", "u", "u">>)>>,
     <<(<<"t", "u", "u", "u">>), (<<"u", "u", "u", "u">>)>>,
     <<(<<"u", "e", "h", "u">>), (<<"u", "u", "h", "u">>)>>}

BootTable(kl, ul) ==
    LET at(kernel, l, kinds) ==
            {<<kernel, (i - 1) * HUGE_PAGE_SIZE>> : i \in {j \in 1 .. Len(l) : l[j] \in kinds}}
    IN  [tables |-> at(TRUE, kl, {"t", "e"}) \cup at(FALSE, ul, {"t", "e"}),
         huge |-> at(TRUE, kl, {"h"}) \cup at(FALSE, ul, {"h"}),
         small |-> {<<p[1], p[2] + PAGE_SIZE>> :
                       p \in at(TRUE, kl, {"t"}) \cup at(FALSE, ul, {"t"})}]

\* the state vmm::init starts the manager from; pmm::init has handed one page,
\* seven pages, or all memory above the first page to the frame allocator
VmmBootInit ==
    /\ \E r \in {<<4096, 8192>>, <<4096, 32768>>, <<4096, MemorySize>>} :
          LET st == BuddyFreeRegion(EmptyPfa, r[1], r[2])
          IN  /\ free_list = st.fl
              /\ map = st.mp
              /\ pfaPanicked = st.panic
              /\ pfaRegions = {r}
    /\ pfaOut = {}
    /\ pfaOp = [kind |-> "init"]
    /\ pfaAllocs = 0
    /\ memory_regions = <<>>
    /\ buddy_map = <<>>
    /\ kernel_alloc = EmptyTree
    /\ user_alloc = EmptyTree
    /\ \E l \in BootLayouts : page_table = BootTable(l[1], l[2])
    /\ vmmPanicked = ""
    /\ vmmOut = {}
    /\ vmmOp = [kind |-> "new"]
    /\ HeapInit

\* what a call of the manager leaves behind
VmmCommit(v) ==
    /\ kernel_alloc' = v.kernel_alloc
    /\ user_alloc' = v.user_alloc
    /\ page_table' = v.page_table
    /\ vmmPanicked' = v.panic
    /\ free_list' = v.frame_allocator.fl
    /\ map' = v.frame_allocator.mp
    /\ pfaPanicked' = v.frame_allocator.panic
    /\ UNCHANGED <<pfaRegions, pfaOut, pfaOp, pfaAllocs, memory_regions, buddy_map>>
    /\ UNCHANGED heapVars

\* the trees and the leaves of the page table before a call
VmmPre ==
    [kernel_alloc |-> kernel_alloc, user_alloc |-> user_alloc,
     small |-> page_table.small, huge |-> page_table.huge]

\* vmm::init: the walk over the page table that fills the two trees
VmmInit ==
    /\ vmmOp.kind = "new"
    /\ \E v \in {[VmmState EXCEPT
                    !.kernel_alloc = free_page_table_2(EmptyTree, page_table, TRUE, 0, -1),
                    !.user_alloc = free_page_table_2(EmptyTree, page_table, FALSE, 0, -1)]} :
          VmmCommit(v)
    /\ vmmOp' = [kind |-> "init", calls |-> 0]
    /\ UNCHANGED vmmOut

VmmReady == vmmOp.kind # "new" /\ vmmPanicked = "" /\ vmmOp.calls < MaxVmmCalls

\* VMM.lock().alloc(kernel, size, align_order)
VmmAlloc(kernel, size, align_order) ==
    /\ VmmReady
    /\ \E r \in {VirtualMemoryManager_alloc(VmmState, kernel, size, align_order)} :
           /\ VmmCommit(r.v)
           /\ vmmOut' = IF r.ok THEN vmmOut \cup {<<kernel, r.addr, size>>} ELSE vmmOut
           /\ vmmOp' = [kind |-> "alloc", kernel |-> kernel, size |-> size,
                        align_order |-> align_order, ok |-> r.ok, addr |-> r.addr,
                        oom |-> r.v.oom, null |-> FALSE, pre |-> VmmPre,
                        calls |-> vmmOp.calls + 1]

\* VMM.lock().map(kernel, size, align_order, phys_addr)
VmmMap(kernel, size, align_order, phys_addr) ==
    /\ VmmReady
    /\ \E r \in {VirtualMemoryManager_map(VmmState, kernel, size, align_order, phys_addr)} :
           /\ VmmCommit(r.v)
           /\ vmmOut' = IF r.ok THEN vmmOut \cup {<<kernel, r.addr, size>>} ELSE vmmOut
           /\ vmmOp' = [kind |-> "map", kernel |-> kernel, size |-> size,
                        align_order |-> align_order, ok |-> r.ok, addr |-> r.addr,
                        oom |-> r.v.oom, null |-> FALSE, pre |-> VmmPre,
                        calls |-> vmmOp.calls + 1,
                        phys_addr |-> phys_addr, log |-> r.v.log]

\* Allocator::alloc of a layout above the largest size class: the pointer is
\* what vmm.alloc(true, layout.size(), align.trailing_zeros()) returned, or null
HeapAllocHuge(layout) ==
    /\ VmmReady
    /\ LARGE_SIZE_CLASSES[Len(LARGE_SIZE_CLASSES)] < PaddedSize(layout)
    /\ \E r \in {VirtualMemoryManager_alloc(VmmState, TRUE, layout.size,
                                            BitLength(layout.align) - 1)} :
           /\ VmmCommit(r.v)
           /\ vmmOut' = IF r.ok THEN vmmOut \cup {<<TRUE, r.addr, layout.size>>} ELSE vmmOut
           /\ vmmOp' = [kind |-> "heap_alloc", kernel |-> TRUE, size |-> layout.size,
                        align_order |-> BitLength(layout.align) - 1, ok |-> r.ok,
                        addr |-> r.addr, oom |-> r.v.oom,
                        null |-> (~r.ok /\ r.v.panic = ""), pre |-> VmmPre,
                        calls |-> vmmOp.calls + 1]

\* VMM.lock().free(addr, size) of a range that alloc or map returned, with the
\* size that was asked for; Allocator::dealloc of a huge layout is this call.
\* undo is the align order of the huge layout when the call gives back what
\* the step before it allocated for the heap
VmmFree(c, checked) ==
    /\ VmmReady /\ c \in vmmOut
    /\ \E v \in {VirtualMemoryManager_free(VmmState, c[1], c[2], c[3], checked)} :
          VmmCommit(v)
    /\ vmmOut' = vmmOut \ {c}
    /\ vmmOp' = [kind |-> "free", kernel |-> c[1], addr |-> c[2], size |-> c[3],
                 checked |-> checked, pre |-> VmmPre,
                 calls |-> vmmOp.calls + 1,
                 undo |-> IF vmmOp.kind = "heap_alloc" /\ vmmOp.ok
                             /\ c = <<TRUE, vmmOp.addr, vmmOp.size>>
                          THEN vmmOp.align_order ELSE -1]

VmmNext ==
    \/ VmmInit
    \/ \E kernel \in BOOLEAN, size \in {4096, 5000, HUGE_PAGE_SIZE}, align_order \in {12, 21} :
          VmmAlloc(kernel, size, align_order)
    \/ \E kernel \in BOOLEAN, a \in {<<5000, 12>>, <<HUGE_PAGE_SIZE, 21>>},
          phys_addr \in {4096, 4112} : VmmMap(kernel, a[1], a[2], phys_addr)
    \/ \E layout \in {[size |-> HUGE_PAGE_SIZE, align |-> HUGE_PAGE_SIZE],
                        [size |-> 528384, align |-> 4096]} : HeapAllocHuge(layout)
    \/ \E c \in vmmOut, checked \in BOOLEAN : VmmFree(c, checked)

\* ---- the manager around kernel_start ---------------------------------------
\* Below, the user window is the one that ends where the kernel window starts:
\* an address of either half is its offset from the start of the user window,
\* in the trees and in the page table alike
kernel_start == VmmWindowRegions * HUGE_PAGE_SIZE

\* a variant of free that unmaps the same pages but hands the whole range to
\* the tree of the half it starts in
VirtualMemoryManager_free_unsplit(v, addr, size, checked) ==
    LET kernel == kernel_start <= addr
        straddle == ~kernel /\ kernel_start < addr + size
        v0 == WithTree(v, kernel, TreeBestFitAlloc_free(TreeOf(v, kernel), addr, size))
        v1 == IF straddle
              THEN UnmapLoops(v0, TRUE, kernel_start, addr + size - kernel_start, 1, checked)
              ELSE v0
        size1 == IF straddle THEN kernel_start - addr ELSE size
    IN  IF v1.panic # "" THEN v1
        ELSE UnmapLoops(v1, kernel, addr, size1, 1, checked)

\* VirtualMemoryManager::free from its first line: a range that starts below
\* kernel_start and ends above it is first freed from kernel_start on (a call
\* of free whose address is kernel_start, so kernel is true in it), then cut
\* down to the part below
VirtualMemoryManager_free_split(v, addr, size, checked) ==
    LET kernel == kernel_start <= addr
        straddle == ~kernel /\ kernel_start < addr + size
        v1 == IF straddle
              THEN VirtualMemoryManager_free(v, TRUE, kernel_start,
                                             addr + size - kernel_start, checked)
              ELSE v
        size1 == IF straddle THEN kernel_start - addr ELSE size
    IN  IF v1.panic # "" THEN v1
        ELSE VirtualMemoryManager_free(v1, kernel, addr, size1, checked)

\* vmm::init, the loop over the entries of the top-level table, with one 2 MiB
\* region of the two windows standing for one entry: the tree is chosen by the
\* index of the entry, an unused entry is freed whole, the table behind a used
\* one is walked
RECURSIVE SeedEntries(_, _)
SeedEntries(v, i) ==
    IF i = 2 * VmmWindowRegions THEN v
    ELSE LET kernel == ~(i < kernel_start \div HUGE_PAGE_SIZE)
             addr == i * HUGE_PAGE_SIZE
             t == TreeOf(v, kernel)
             t1 == IF <<kernel, addr>> \in v.page_table.huge THEN t
                   ELSE IF <<kernel, addr>> \in v.page_table.tables
                   THEN FreeRunsOf(t, UnusedRuns(v.page_table, kernel, addr))
                   ELSE TreeBestFitAlloc_free(t, addr, HUGE_PAGE_SIZE)
         IN  SeedEntries(WithTree(v, kernel, t1), i + 1)

\* vmm::init over the two windows
VmmInitAt ==
    /\ vmmOp.kind = "new"
    /\ \E v \in {SeedEntries(VmmState, 0)} : VmmCommit(v)
    /\ vmmOp' = [kind |-> "init", calls |-> 0]
    /\ UNCHANGED vmmOut

\* VMM.lock().free(addr, size) of any range of the two windows
VmmFreeAt(addr, size, checked) ==
    /\ VmmReady
    /\ \E v \in {VirtualMemoryManager_free_split(VmmState, addr, size, checked)} :
          VmmCommit(v)
    /\ vmmOut' = {c \in vmmOut : ~Overlap(c[2], c[2] + c[3], addr, addr + size)}
    /\ vmmOp' = [kind |-> "free_at", addr |-> addr, size |-> size,
                 checked |-> checked, pre |-> VmmPre, calls |-> vmmOp.calls + 1]

\* map of a whole window, of a 2 MiB page and of a 4 KiB page in either half,
\* and free of ranges at and around kernel_start
SplitNext ==
    \/ VmmInitAt
    \/ \E kernel \in BOOLEAN,
          a \in {<<kernel_start, 12>>, <<HUGE_PAGE_SIZE, 21>>, <<PAGE_SIZE, 12>>} :
          VmmMap(kernel, a[1], a[2], PAGE_SIZE)
    \/ \E addr \in {0, kernel_start - HUGE_PAGE_SIZE, kernel_start - PAGE_SIZE, kernel_start},
          size \in {PAGE_SIZE, 2 * PAGE_SIZE, HUGE_PAGE_SIZE, 2 * HUGE_PAGE_SIZE,
                    kernel_start},
          checked \in BOOLEAN : VmmFreeAt(addr, size, checked)

\* the windows with no page mapped in them
SplitInit == VmmBootInit /\ page_table.tables = {} /\ page_table.huge = {}

\* ---- vmm::init: the segments handed to the heap -----------------------------
\* The loop of vmm::init over the kernel half, followed through the level-2
\* tables of one level-3 table: SeedTables tables of SeedPairs pairs of entries
\* each, the rest of the half being in use.  page_table.dirs holds the indices
\* of the level-3 entries in use, page_table.huge the level-2 entries in use,
\* page_table.stale the entries that read as non-zero in the frame that becomes
\* the table of an unused level-3 entry: the loop installs the frame as
\* alloc handed it out, without writing it first.
\* memory_size of a machine with room for the frames of four segments
SeedMemorySize == 2 ^ 25

\* the heap's address of the start of the tables' range: a multiple of the
\* segment size, and not 0, as kernel_start is
SeedBase == SEGMENT_SIZE

\* a table per level-3 entry, as <<in use, n>>: the first n entries of the
\* table (or of the frame that becomes the table) read as non-zero
SeedLayouts ==
    {l \in [0 .. (SeedTables - 1) -> BOOLEAN \X (0 .. (2 * SeedPairs))] : l[0][1]}

SeedTable(l) ==
    LET at(inuse) == {<<TRUE, (j * 2 * SeedPairs + k) * HUGE_PAGE_SIZE>> :
                         j \in {i \in DOMAIN l : l[i][1] = inuse},
                         k \in 0 .. (2 * SeedPairs - 1)}
        first(inuse) == {e \in at(inuse) :
                            \E j \in DOMAIN l :
                               /\ j * 2 * SeedPairs * HUGE_PAGE_SIZE <= e[2]
                               /\ e[2] < (j * 2 * SeedPairs + l[j][2]) * HUGE_PAGE_SIZE}
    IN  [tables |-> {}, small |-> {}, huge |-> first(TRUE), stale |-> first(FALSE),
         dirs |-> {j \in DOMAIN l : l[j][1]}]

\* for k in (0..512).step_by(2): a pair of unused entries takes two frames of
\* the top order, becomes two 2 MiB pages and is pushed as a segment; the
\* loops end with the fourth segment on the list
RECURSIVE SegmentPairs(_, _, _)
SegmentPairs(s, j, k) ==
    IF k >= 2 * SeedPairs \/ s.done \/ s.v.panic # "" THEN s
    ELSE LET addr == (j * 2 * SeedPairs + k) * HUGE_PAGE_SIZE
             used == (s.v.page_table.huge \cup s.v.page_table.stale)
                        \cap {<<TRUE, addr>>, <<TRUE, addr + HUGE_PAGE_SIZE>>}
             f1 == BuddyAlloc(s.v.frame_allocator, ORDER_END - 1)
             f2 == BuddyAlloc(f1.st, ORDER_END - 1)
             h1 == fs_push(s.h, SeedBase + addr)
         IN  IF used # {} THEN SegmentPairs(s, j, k + 2)
             ELSE IF ~f1.ok \/ ~f2.ok
             THEN [s EXCEPT !.v.panic = "unwrap", !.v.frame_allocator = f1.st]
             ELSE IF (SeedBase + addr) % SEGMENT_SIZE # 0
             THEN [s EXCEPT !.v.panic = "push_bytes", !.v.frame_allocator = f2.st]
             ELSE SegmentPairs(
                    [s EXCEPT !.v.frame_allocator = f2.st,
                              !.v.page_table.huge =
                                  @ \cup {<<TRUE, addr>>, <<TRUE, addr + HUGE_PAGE_SIZE>>},
                              !.v.log = @ \cup {<<TRUE, addr, f1.addr, HUGE_PAGE_SIZE>>,
                                                <<TRUE, addr + HUGE_PAGE_SIZE, f2.addr,
                                                  HUGE_PAGE_SIZE>>},
                              !.h = h1,
                              !.pushed = Append(@, SeedBase + addr),
                              !.done = (4 <= h1.fs_len)],
                    j, k + 2)

\* for (j, entry) in table.iter_mut().enumerate(): an unused level-3 entry
\* takes a 4 KiB frame as its table
RECURSIVE SegmentTables(_, _)
SegmentTables(s, j) ==
    IF j >= SeedTables \/ s.done \/ s.v.panic # "" THEN s
    ELSE LET f == BuddyAlloc(s.v.frame_allocator, ORDER_START)
             s1 == IF j \in s.v.page_table.dirs THEN s
                   ELSE IF ~f.ok THEN [s EXCEPT !.v.panic = "unwrap"]
                   ELSE [s EXCEPT !.v.frame_allocator = f.st,
                                  !.v.page_table.dirs = @ \cup {j}]
         IN  SegmentTables(SegmentPairs(s1, j, 0), j + 1)

\* vmm::init up to VirtualMemoryManager::new: the segment loop
VmmInitSegments ==
    /\ vmmOp.kind = "new" /\ ~halted /\ al.pc = "idle"
    /\ \E s \in {SegmentTables(
                    [v |-> [VmmState EXCEPT !.frame_allocator.memory_size = SeedMemorySize],
                     h |-> HeapState, pushed |-> <<>>, done |-> FALSE], 0)} :
          /\ Commit(s.h)
          /\ page_table' = s.v.page_table
          /\ vmmPanicked' = s.v.panic
          /\ free_list' = s.v.frame_allocator.fl
          /\ map' = s.v.frame_allocator.mp
          /\ pfaPanicked' = s.v.frame_allocator.panic
          /\ vmmOp' = [kind |-> "segments", pushed |-> s.pushed, log |-> s.v.log]
    /\ hist' = [hist EXCEPT !.actor = 0, !.op = "vmm_init"]
    /\ UNCHANGED <<delayed_free, al, dl, halted, live>>
    /\ UNCHANGED <<pfaRegions, pfaOut, pfaOp, pfaAllocs, memory_regions, buddy_map>>
    /\ UNCHANGED <<kernel_alloc, user_alloc, vmmOut>>

\* vmm::init from ALLOC.vmm.call_once on: the heap may ask the manager for
\* segments, which lie behind the tables of the walk
VmmInitDone ==
    /\ vmmOp.kind = "segments" /\ vmmPanicked = "" /\ al.pc = "idle"
    /\ vmm' = [set |-> TRUE, pool |-> VmmSegments,
               next |-> SeedBase + SeedTables * 2 * SeedPairs * HUGE_PAGE_SIZE,
               locked |-> FALSE, calls |-> 0, failed |-> FALSE]
    /\ vmmOp' = [vmmOp EXCEPT !.kind = "init"]
    /\ UNCHANGED <<segment_meta, page_meta, pages, free_small_pages, full_pages,
                   delayed_free, mem, fs_ptr, fs_len, al, dl, halted, live, hist>>
    /\ UNCHANGED <<kernel_alloc, user_alloc, page_table, vmmPanicked, vmmOut>>
    /\ UNCHANGED pfaVars

\* the segment loop, then the requests for the nodes of the two B-trees that
\* the seeding of the trees makes before ALLOC.vmm is set, and the requests of
\* the kernel after it
SeedNext ==
    \/ VmmInitSegments
    \/ /\ vmmOp.kind \in {"segments", "init"} /\ vmmPanicked = ""
       /\ hist.allocs < MaxSeedAllocs
       /\ HeapAlloc([size |-> 192, align |-> 8])
    \/ VmmInitDone

\* the machine as pmm::init leaves it: all memory above the first page, up to
\* 8, 20 or 32 MiB, handed to the frame allocator
SeedInit ==
    /\ \E end \in {2 ^ 23, 5 * 2 ^ 22, SeedMemorySize} :
          LET st == BuddyFreeRegion([EmptyPfa EXCEPT !.memory_size = SeedMemorySize],
                                    4096, end)
          IN  /\ free_list = st.fl
              /\ map = st.mp
              /\ pfaPanicked = st.panic
              /\ pfaRegions = {<<4096, end>>}
    /\ pfaOut = {}
    /\ pfaOp = [kind |-> "init"]
    /\ pfaAllocs = 0
    /\ memory_regions = <<>>
    /\ buddy_map = <<>>
    /\ kernel_alloc = EmptyTree
    /\ user_alloc = EmptyTree
    /\ \E l \in SeedLayouts : page_table = SeedTable(l)
    /\ vmmPanicked = ""
    /\ vmmOut = {}
    /\ vmmOp = [kind |-> "new"]
    /\ HeapInit

\* a caller about to ask for size bytes, 0 <= size <= 512 KiB: the allocator
\* as Allocator::new leaves it, with the request in al
InitClass ==
    /\ PfaInit /\ VmmNew
    /\ segment_meta = [x \in {} |-> 0]
    /\ page_meta = [x \in {} |-> 0]
    /\ pages = [c \in 0 .. (NUM_SIZE_CLASSES - 1) |-> NoPage]
    /\ free_small_pages = NoPage
    /\ full_pages = NoPage
    /\ delayed_free = 0
    /\ mem = [x \in {} |-> 0]
    /\ fs_ptr = 0
    /\ fs_len = 0
    /\ vmm = [set |-> FALSE, pool |-> 0, next |-> 0, locked |-> FALSE,
              calls |-> 0, failed |-> FALSE]
    /\ \E size \in 0 .. LARGE_SIZE_CLASSES[Len(LARGE_SIZE_CLASSES)] :
          al = [pc |-> "request", class |-> 0, page |-> NoPage,
                layout |-> [size |-> size, align |-> 1]]
    /\ dl = [t \in Foreign |-> IdleDealloc]
    /\ halted = FALSE
    /\ live = [x \in {} |-> 0]
    /\ hist = [actor |-> 0, op |-> "new", ptr |-> 0, dup |-> FALSE,
               allocs |-> 0, deallocs |-> 0, foreign_freed |-> {}]

\* let class = size_class(size) of Allocator::alloc, on the argument alone
SizeClass ==
    /\ al.pc = "request"
    /\ al' = [al EXCEPT !.pc = "size_class", !.class = size_class(al.layout.size)]
    /\ UNCHANGED <<segment_meta, page_meta, pages, free_small_pages, full_pages,
                   delayed_free, mem, fs_ptr, fs_len, vmm, dl, halted, live, hist>>
    /\ UNCHANGED <<pfaVars, vmmVars>>

Init == PfaInit /\ HeapInit /\ VmmNew

Spec == Init /\ [][HeapNext]_vars

SpecOwner == Init /\ [][OwnerNext]_vars

SpecPFA == Init /\ [][PfaNext]_vars

InitBoot == BootInit /\ HeapInit /\ VmmNew

SpecBoot == InitBoot /\ [][BootNext]_vars

SpecTree == Init /\ [][TreeNext]_vars

SpecTreeZero == Init /\ [][TreeZeroNext]_vars

SpecTreeAny == Init /\ [][TreeAnyNext]_vars

SpecVMM == VmmBootInit /\ [][VmmNext]_vars

SpecClass == InitClass /\ [][SizeClass]_vars
SpecRegion == Init /\ [][RegionNext]_vars

SpecSplit == SplitInit /\ [][SplitNext]_vars

SpecSeed == SeedInit /\ [][SeedNext]_vars

SpecLock == Init /\ [][LockNext]_vars

SpecRetire == Init /\ [][RetireNext]_vars

(***************************************************************************)
(* Claims about the heap allocator                                         *)
(***************************************************************************)
\* the bytes [lo, hi) that the blocks of the page of block b may occupy
PageBody(b, class) ==
    IF class < Len(SMALL_SIZE_CLASSES)
    THEN LET start == small_page_start(PageOfBlock(segment_meta, b))
         IN  <<start, start + SMALL_PAGE_SIZE>>
    ELSE <<SegmentOf(b) + LARGE_SIZE_CLASS_PAGE_STARTS(class - Len(SMALL_SIZE_CLASSES)),
           SegmentOf(b) + SEGMENT_SIZE>>

\* C1: with only the owning thread running, alloc never returns a block that is
\* still outstanding, and every pointer returned for a layout (n, a) is a
\* multiple of max(8, a) and addresses n bytes that lie inside the body of its
\* page and overlap no other outstanding block.
C1_LivePointersDistinctAligned ==
    /\ hist.op = "alloc" => ~hist.dup
    /\ \A b \in DOMAIN live :
          /\ b % Max(8, live[b].align) = 0
          /\ PageBody(b, LayoutClass(live[b]))[1] <= b
          /\ b + live[b].size <= PageBody(b, LayoutClass(live[b]))[2]
    /\ \A b \in DOMAIN live, c \in DOMAIN live :
          b # c => ~Overlap(b, b + live[b].size, c, c + live[c].size)

\* C1 witness: blocks of both layouts are outstanding, a page has filled up and
\* alloc has returned a block after a dealloc
C1_Witness ==
    /\ hist.op = "alloc" /\ hist.ptr # 0 /\ hist.deallocs > 0
    /\ full_pages # NoPage
    /\ \E b \in DOMAIN live, c \in DOMAIN live : live[b].align # live[c].align

Quiescent ==
    /\ ~halted /\ al.pc = "idle" /\ delayed_free = 0
    /\ \A t \in Foreign : dl[t].pc = "idle"

Outstanding(page) == {b \in DOMAIN live : PageOfBlock(segment_meta, b) = page}

\* C2: in every quiescent state (no alloc or dealloc in progress, delayed_free
\* drained) the field used of every page equals the number of blocks of the
\* page that alloc has returned and that were not yet passed to dealloc.
C2_UsedCountsOutstanding ==
    Quiescent =>
        \A page \in DOMAIN page_meta :
            page_meta[page].used = Cardinality(Outstanding(page))

\* C3: once every block that alloc returned has been passed to dealloc, the
\* thread allocator is back in its initial state: every class list, the full
\* list, the free small page list and delayed_free are empty.
C3_RoundTripRestores ==
    (~halted /\ al.pc = "idle" /\ DOMAIN live = {}) =>
        /\ pages = [c \in 0 .. (NUM_SIZE_CLASSES - 1) |-> NoPage]
        /\ full_pages = NoPage
        /\ free_small_pages = NoPage
        /\ delayed_free = 0

\* the list heads of the thread allocator that are not empty
PageLists ==
    {HeadSlot("pages", c) : c \in {x \in DOMAIN pages : pages[x] # NoPage}}
    \cup (IF free_small_pages # NoPage THEN {HeadSlot("free_small_pages", 0)} ELSE {})
    \cup (IF full_pages # NoPage THEN {HeadSlot("full_pages", 0)} ELSE {})

\* the walk along one list: head is the page that slot points at and seen the
\* pages met so far, on this list and on the lists walked before it
RECURSIVE ListWalk(_, _, _)
ListWalk(slot, head, seen) ==
    IF head = NoPage THEN [ok |-> TRUE, seen |-> seen]
    ELSE IF \/ head \in seen
            \/ head \notin DOMAIN page_meta
            \/ page_meta[head].prev_next # slot
    THEN [ok |-> FALSE, seen |-> seen]
    ELSE ListWalk(NextSlot(head), page_meta[head].next, seen \cup {head})

RECURSIVE ListsOk(_, _)
ListsOk(lists, seen) ==
    IF lists = {} THEN TRUE
    ELSE LET list == CHOOSE x \in lists : TRUE
             walk == ListWalk(list, SlotGet(HeapState, list), seen)
         IN  walk.ok /\ ListsOk(lists \ {list}, walk.seen)

\* C4: every initialised page is on at most one of the class lists, the full
\* list and the free small page list (and otherwise unlinked), at one place of
\* it, and along every list the prev_next of a page points at the slot that
\* points at the page: the list head for the first page, the next field of
\* the page in front of it for the others.
C4_PageOnOneList == ListsOk(PageLists, {})

\* C4 witness: a class list holds two pages, after a page came back from the
\* full list
C4_Witness ==
    \E c \in DOMAIN pages :
        /\ pages[c] # NoPage
        /\ page_meta[pages[c]].next # NoPage
        /\ page_meta[pages[c]].used > 0

\* the blocks of a list of free blocks, from its head on; fuel bounds the walk
RECURSIVE Chain(_, _)
Chain(head, fuel) ==
    IF head = 0 \/ fuel = 0 \/ head \notin DOMAIN mem THEN <<>>
    ELSE <<head>> \o Chain(mem[head], fuel - 1)

FreeChain(head) == Chain(head, Cardinality(DOMAIN mem) + 1)

\* how many times block b is on the thread_free, free and local_free lists of
\* its page and on the delayed_free stack of the owner
BlockOccurrences(b) ==
    LET pm == page_meta[PageOfBlock(segment_meta, b)]
        count(chain) == Cardinality({i \in 1 .. Len(chain) : chain[i] = b})
    IN  count(FreeChain(TfPtr(pm.thread_free))) + count(FreeChain(delayed_free))
        + count(FreeChain(pm.free)) + count(FreeChain(pm.local_free))

\* C5: once all dealloc calls have returned, every block freed by a foreign
\* thread (and not handed out again) is on exactly one of the page's
\* thread_free list, the owner's delayed_free stack and the page's free and
\* local_free lists, exactly once: none is dropped, none appears twice.
C5_ForeignFreedReachableOnce ==
    (\A t \in Foreign : dl[t].pc = "idle") =>
        \A b \in hist.foreign_freed : BlockOccurrences(b) = 1

\* C6: a page that is on the full list (is_full) while no foreign dealloc is
\* working on it has the state Delayed in its thread_free word.
C6_FullPageIsDelayed ==
    \A page \in DOMAIN page_meta :
        (/\ page_meta[page].is_full
         /\ \A t \in Foreign : dl[t].pc = "idle" \/ dl[t].page # page)
        => TfState(page_meta[page].thread_free) = Delayed

\* C7: a step of a dealloc run by a thread that does not own the segment
\* changes only the thread_free word of the block's page, the delayed_free
\* head and the next field of the block: the page's free, local_free, used,
\* is_full and list links, the class lists, the full and free small page lists
\* and the segment's used count stay as they are.
C7_ForeignFrame ==
    [][hist'.actor \in Foreign =>
        LET t == hist'.actor
            block == IF dl[t].ptr # 0 THEN dl[t].ptr ELSE dl'[t].ptr
        IN  /\ pages' = pages
            /\ full_pages' = full_pages
            /\ free_small_pages' = free_small_pages
            /\ segment_meta' = segment_meta
            /\ fs_ptr' = fs_ptr /\ fs_len' = fs_len
            /\ DOMAIN page_meta' = DOMAIN page_meta
            /\ \A page \in DOMAIN page_meta :
                  /\ [page_meta'[page] EXCEPT !.thread_free = 0]
                        = [page_meta[page] EXCEPT !.thread_free = 0]
                  /\ page_meta'[page].thread_free # page_meta[page].thread_free
                        => page = PageOfBlock(segment_meta, block)
            /\ \A x \in DOMAIN mem' :
                  (x \notin DOMAIN mem \/ mem'[x] # mem[x]) => x = block
      ]_vars

\* C7 witness: a foreign dealloc has gone through the delayed path and returned
C7_Witness ==
    /\ hist.actor \in Foreign
    /\ dl[hist.actor].pc = "idle"
    /\ delayed_free # 0
    /\ \E page \in DOMAIN page_meta : TfPtr(page_meta[page].thread_free) # 0

(***************************************************************************)
(* Claims about the physical frame allocator                               *)
(***************************************************************************)
\* the chunks on the free lists, as <<order, position, physical address>>
FreeChunks ==
    UNION {{<<o, i, free_list[o][i] - PhysOffset>> : i \in 1 .. Len(free_list[o])} :
            o \in ORDERS}

ChunksOverlap(o1, a1, o2, a2) == Overlap(a1, a1 + 2 ^ o1, a2, a2 + 2 ^ o2)

\* C8: the chunks on the free lists are pairwise non-overlapping and disjoint
\* from every outstanding allocation, and outstanding allocations do not
\* overlap each other (free pops the buddy and continues with the merged chunk).
C8_FreeChunksDisjoint ==
    ~pfaPanicked =>
        /\ \A c \in FreeChunks, d \in FreeChunks :
              c # d => ~ChunksOverlap(c[1], c[3], d[1], d[3])
        /\ \A c \in FreeChunks, u \in pfaOut : ~ChunksOverlap(c[1], c[3], u[1], u[2])
        /\ \A u \in pfaOut, w \in pfaOut : u # w => ~ChunksOverlap(u[1], u[2], w[1], w[2])

\* C9: no address is on the free lists of two different orders, and every
\* address on free_list[o] is a multiple of 2^o.
C9_ListsDisjointAligned ==
    ~pfaPanicked =>
        /\ \A c \in FreeChunks, d \in FreeChunks : c[1] # d[1] => c[3] # d[3]
        /\ \A c \in FreeChunks : c[3] % (2 ^ c[1]) = 0

SymDiff(S, x) == IF x \in S THEN S \ {x} ELSE S \cup {x}

\* C10: alloc(order) returns None iff the free lists of all orders from order
\* up to 21 are empty; otherwise it returns the head of the lowest non-empty
\* list after toggling the pair bit of that address at every order from order
\* up to the popped order; a None result leaves lists and bitmaps unchanged.
C10_AllocNoneIffEmpty ==
    [][(pfaAllocs' = pfaAllocs + 1 /\ ~pfaPanicked') =>
        LET o == pfaOp'.order
            nonempty == {b \in o .. (ORDER_END - 1) : free_list[b] # <<>>}
        IN  /\ (~pfaOp'.ok) <=> (nonempty = {})
            /\ (~pfaOp'.ok) => (free_list' = free_list /\ map' = map)
            /\ pfaOp'.ok =>
                 LET b == CHOOSE x \in nonempty : \A y \in nonempty : x <= y
                     a == Head(free_list[b]) - PhysOffset
                 IN  /\ pfaOp'.from = b
                     /\ pfaOp'.result = a
                     /\ free_list' = [free_list EXCEPT ![b] = Tail(@)]
                     /\ \A k \in ORDERS :
                          map'[k] = IF o <= k /\ k <= b
                                    THEN SymDiff(map[k], Shr(a, k + 1))
                                    ELSE map[k]
      ]_vars

\* C10 witness: an alloc was served from a free list of a higher order
C10_Witness == pfaOp.kind = "alloc" /\ pfaOp.ok /\ pfaOp.from > pfaOp.order

\* the largest order o such that a chunk of 2^o bytes fits in [a, b) at a
LargestOrder(a, b) ==
    CHOOSE o \in ORDERS :
        /\ 2 ^ o <= b - a /\ a % (2 ^ o) = 0
        /\ \A p \in ORDERS : (2 ^ p <= b - a /\ a % (2 ^ p) = 0) => p <= o

\* the allocator has seen exactly one call, free_region([a, b))
FreshRegion ==
    /\ pfaOp.kind = "free_region" /\ Cardinality(pfaRegions) = 1
    /\ pfaAllocs = 0 /\ pfaOut = {}

\* C11: after free_region([a, b)) on a fresh allocator, with a < b aligned to
\* 4 KiB and o the largest order with 2^o <= b - a and a a multiple of 2^o,
\* alloc(o) returns Some chunk that lies entirely inside [a, b).
C11_RegionServesLargestOrder ==
    [][FreshRegion =>
        LET a == pfaOp.start
            b == pfaOp.end
            o == LargestOrder(a, b)
            r == BuddyAlloc(PfaState, o)
        IN  /\ ~pfaPanicked
            /\ r.ok /\ ~r.st.panic
            /\ a <= r.addr /\ r.addr + 2 ^ o <= b
            /\ (pfaOp'.kind = "alloc" /\ pfaOp'.order = o) =>
                  (pfaOp'.ok /\ pfaOp'.result = r.addr /\ ~pfaPanicked')
      ]_vars

\* C11 witness: alloc(13) has just been served from a single region whose
\* largest fitting order is 13
C11_Witness ==
    /\ pfaOp.kind = "alloc" /\ pfaOp.ok /\ pfaAllocs = 1
    /\ \E r \in pfaRegions :
          /\ pfaRegions = {r}
          /\ LargestOrder(r[1], r[2]) = pfaOp.order
          /\ pfaOp.order = ORDER_START + 1

\* C12: when free(o, a) is immediately followed by an alloc(o) that returns a,
\* the pair bitmaps of all orders are what they were before the free; and
\* after alloc(21) returned a, free(21, a) followed by alloc(21) returns a.
C12_FreeAllocRestoresBitmap ==
    [][/\ (pfaOp'.kind = "free" /\ pfaOp'.order = ORDER_END - 1) => ~pfaPanicked'
       /\ (pfaOp.kind = "free" /\ pfaOp'.kind = "alloc" /\ pfaOp'.order = pfaOp.order) =>
             /\ (pfaOp'.ok /\ pfaOp'.result = pfaOp.addr) => map' = pfaOp.mp
             /\ pfaOp.order = ORDER_END - 1 =>
                   (pfaOp'.ok /\ pfaOp'.result = pfaOp.addr)
      ]_vars

\* the usable regions above 1 MiB hold more bytes than the pages of the buddy map
RECURSIVE UsableBytes(_, _)
UsableBytes(regions, i) ==
    IF i > Len(regions) THEN 0
    ELSE (IF RegionSkipped(regions[i]) THEN 0 ELSE regions[i].end - regions[i].start)
         + UsableBytes(regions, i + 1)

SparePage == UsableBytes(memory_regions, 1) > RoundUpPage(BuddyMapBytes(MemorySize))

\* the chunk <<order, addr>> lies above 1 MiB, in usable regions only, and
\* off the bytes of the buddy map
ChunkInUsableMemory(c) ==
    /\ c[2] >= LOW_MEMORY_END
    /\ \A k \in 0 .. (2 ^ (c[1] - ORDER_START) - 1) :
          \E i \in 1 .. Len(memory_regions) :
             /\ memory_regions[i].kind = "Usable"
             /\ memory_regions[i].start <= c[2] + k * 4096
             /\ c[2] + (k + 1) * 4096 <= memory_regions[i].end
    /\ ~Overlap(c[2], c[2] + 2 ^ c[1], buddy_map[1], buddy_map[2])

TreeConsistent(t) ==
    t.size_addr_tree = {<<t.addr_size_tree[a], a>> : a \in DOMAIN t.addr_size_tree}

\* no two ranges of the addr -> size map overlap
TreeNoOverlap(t) ==
    \A a \in DOMAIN t.addr_size_tree, b \in DOMAIN t.addr_size_tree :
        a < b => a + t.addr_size_tree[a] <= b

\* no two ranges of the addr -> size map overlap or touch
TreeNoTouch(t) ==
    \A a \in DOMAIN t.addr_size_tree, b \in DOMAIN t.addr_size_tree :
        a < b => a + t.addr_size_tree[a] < b

\* the pages of [addr, addr + size)
PagesOf(addr, size) ==
    {p * PAGE_SIZE : p \in (addr \div PAGE_SIZE) .. ((addr + size - 1) \div PAGE_SIZE)}

\* the pages inside the ranges of the addr -> size map
FreePagesOf(t) ==
    UNION {PagesOf(a, t.addr_size_tree[a]) : a \in DOMAIN t.addr_size_tree}

\* C14: every alloc(size, align_order) of the tree that returns (addr,
\* padded_size) has padded_size >= size, addr a multiple of 1 << align_order,
\* and [addr, addr + padded_size) inside exactly one free range of the tree
\* as it was before the call.
C14_AllocInsideOneFreeRange ==
    (vmmOp.kind = "alloc" /\ vmmOp.ok) =>
        /\ vmmOp.padded >= vmmOp.size
        /\ vmmOp.addr % (2 ^ vmmOp.align_order) = 0
        /\ Cardinality({a \in DOMAIN vmmOp.pre.addr_size_tree :
                           /\ a <= vmmOp.addr
                           /\ vmmOp.addr + vmmOp.padded
                                 <= a + vmmOp.pre.addr_size_tree[a]}) = 1

\* C14 witness: alloc padded the size and skipped the unaligned start of the
\* range it chose, while another free range was there
C14_Witness ==
    /\ vmmOp.kind = "alloc" /\ vmmOp.ok
    /\ vmmOp.padded > vmmOp.size
    /\ vmmOp.addr > vmmOp.entry[2]
    /\ Cardinality(DOMAIN vmmOp.pre.addr_size_tree) > 1

\* C15: after any sequence of alloc calls and of free calls on ranges that
\* alloc returned, no two free ranges of the addr -> size map touch or
\* overlap, and the (size, addr) set holds exactly the pairs of that map.
C15_TreeRangesDisjointAndConsistent ==
    TreeNoTouch(kernel_alloc) /\ TreeConsistent(kernel_alloc)

\* the free ranges of the tree before the call whose size is at least need
RangesAtLeast(need) ==
    {e \in vmmOp.pre.size_addr_tree : e[1] >= need}

\* C16 as stated: alloc selects, among the free ranges of size >= size +
\* align - 4 KiB (size rounded up to 4 KiB, align = max(1 << align_order,
\* 4 KiB)), the smallest one, the lowest address on ties, and returns None only
\* when no free range has that size.
C16_BestFitAtSizePlusAlign ==
    vmmOp.kind = "alloc" =>
        LET fits == RangesAtLeast(AlignUp(vmmOp.size, PAGE_SIZE)
                                  + Max(2 ^ vmmOp.align_order, PAGE_SIZE) - PAGE_SIZE)
        IN  /\ vmmOp.ok <=> fits # {}
            /\ vmmOp.ok => /\ vmmOp.entry \in fits
                           /\ \A f \in fits : SizeAddrLe(vmmOp.entry, f)

\* C17: a free(addr, size) of a range that is already free, wholly or partly,
\* leaves the tree describing the union of the free ranges and the range, the
\* two maps consistent, and no overlapping or duplicate entries.
C17_FreeToleratesOverlap ==
    (/\ vmmOp.kind = "free_any"
     /\ PagesOf(vmmOp.addr, vmmOp.size) \cap FreePagesOf(vmmOp.pre) # {}) =>
        /\ FreePagesOf(kernel_alloc)
             = FreePagesOf(vmmOp.pre) \cup PagesOf(vmmOp.addr, vmmOp.size)
        /\ TreeConsistent(kernel_alloc)
        /\ TreeNoOverlap(kernel_alloc)

\* the leaves of the page table and the trees are what they were before the call
\* that vmmOp records
RestoredTo(pre) ==
    /\ kernel_alloc' = pre.kernel_alloc
    /\ user_alloc' = pre.user_alloc
    /\ page_table'.small = pre.small
    /\ page_table'.huge = pre.huge

\* C18: a successful VMM.alloc(kernel, size, align_order) that returned virt,
\* followed by VMM.free(virt, size), restores both trees and the set of mapped
\* pages to what they were before the alloc, for every size, a multiple of
\* 4 KiB or not.
C18_AllocThenFreeRestores ==
    [][(/\ vmmOp.kind = "alloc" /\ vmmOp.ok
        /\ vmmOp'.kind = "free"
        /\ vmmOp'.kernel = vmmOp.kernel /\ vmmOp'.addr = vmmOp.addr
        /\ vmmOp'.size = vmmOp.size)
          => (vmmPanicked' = "" /\ RestoredTo(vmmOp.pre))]_vars

\* the bytes of the free ranges of a tree
RECURSIVE FreeBytes(_, _)
FreeBytes(t, keys) ==
    IF keys = {} THEN 0
    ELSE LET a == CHOOSE x \in keys : TRUE
         IN  t.addr_size_tree[a] + FreeBytes(t, keys \ {a})

\* every page of the window of a half is inside a free range of the half's tree
\* or mapped, and not both: the free ranges lie in the window and do not
\* overlap, no mapped page lies in a free range, and free and mapped bytes add
\* up to the window
HalfFreeOrMapped(kernel, t) ==
    LET small == {p[2] : p \in {q \in page_table.small : q[1] = kernel}}
        huge == {p[2] : p \in {q \in page_table.huge : q[1] = kernel}}
        ranges == DOMAIN t.addr_size_tree
    IN  /\ TreeNoOverlap(t)
        /\ \A a \in ranges : 0 <= a /\ a + t.addr_size_tree[a] <= VmmWindowRegions * HUGE_PAGE_SIZE
        /\ \A a \in ranges, p \in small :
              ~Overlap(a, a + t.addr_size_tree[a], p, p + PAGE_SIZE)
        /\ \A a \in ranges, p \in huge :
              ~Overlap(a, a + t.addr_size_tree[a], p, p + HUGE_PAGE_SIZE)
        /\ \A p \in small : AlignDown(p, HUGE_PAGE_SIZE) \notin huge
        /\ FreeBytes(t, ranges) + PAGE_SIZE * Cardinality(small)
              + HUGE_PAGE_SIZE * Cardinality(huge) = VmmWindowRegions * HUGE_PAGE_SIZE

\* C19: in every state after vmm::init, the state after a VMM.alloc or VMM.map
\* that returned None included, every 4 KiB page of each half is inside a free
\* range of the half's tree or mapped in the page table, never both and never
\* neither.
C19_EveryPageFreeOrMapped ==
    (vmmOp.kind # "new" /\ vmmPanicked = "") =>
        /\ HalfFreeOrMapped(TRUE, kernel_alloc)
        /\ HalfFreeOrMapped(FALSE, user_alloc)

\* C20: when the frame allocator has no frame for a data page or for a page
\* table the mapping needs, VMM.alloc and VMM.map return None without a panic
\* and the heap's alloc that asked returns null.
C20_OutOfMemoryIsNone ==
    (vmmOp.kind \in {"alloc", "map", "heap_alloc"} /\ vmmOp.oom) =>
        /\ vmmPanicked = ""
        /\ ~vmmOp.ok
        /\ vmmOp.kind = "heap_alloc" => vmmOp.null

\* The leaves a returned VMM.map wrote carry every page of the page-rounded
\* range to the frame at the same distance from phys_addr, and the returned
\* address keeps the offset of phys_addr within its page.
MapCoversRange ==
    LET off == vmmOp.phys_addr % PAGE_SIZE
        virt0 == vmmOp.addr - (vmmOp.addr % PAGE_SIZE)
        phys0 == vmmOp.phys_addr - off
    IN  /\ vmmOp.addr % PAGE_SIZE = off
        /\ \A p \in PagesOf(virt0, AlignUp(vmmOp.size + off, PAGE_SIZE)) :
              \E e \in vmmOp.log :
                  /\ e[1] = vmmOp.kernel
                  /\ e[2] <= p /\ p < e[2] + e[4]
                  /\ e[3] + (p - e[2]) = phys0 + (p - virt0)

\* C21: a VMM.map(kernel, size, align_order, phys_addr) that returned virt has
\* mapped every page of the page-rounded range at virt + i to the frame at
\* phys_addr + i, virt keeps the offset of phys_addr within its page, and a
\* 2 MiB leaf is written only where both the virtual and the physical address
\* are 2 MiB-aligned.
C21_MapFollowsPhysAddr ==
    (vmmOp.kind = "map" /\ vmmOp.ok) =>
        /\ MapCoversRange
        /\ \A e \in vmmOp.log :
              e[4] = HUGE_PAGE_SIZE =>
                  e[2] % HUGE_PAGE_SIZE = 0 /\ e[3] % HUGE_PAGE_SIZE = 0

\* C23: for every n from 0 to 512 KiB, size_class(n) is the index of the
\* smallest class whose block size is at least n (0 goes to the 8-byte class, a
\* class size to its own class), and from n - 1 to n the class stays or goes
\* up by one: size_class never decreases and skips no class.
C23_SizeClassIsSmallestFit ==
    al.pc = "size_class" =>
        LET n == al.layout.size
        IN  /\ al.class \in 0 .. (NUM_SIZE_CLASSES - 1)
            /\ n <= ClassSize(al.class)
            /\ \A c \in 0 .. (NUM_SIZE_CLASSES - 1) : n <= ClassSize(c) => al.class <= c
            /\ n > 0 => size_class(n - 1) \in {al.class - 1, al.class}

\* a request of exactly the size of a class above 64 bytes, and the request
\* one byte above it
C23_Witness ==
    /\ al.pc = "size_class"
    /\ al.layout.size \in {80, 81}
    /\ ClassSize(al.class) = IF al.layout.size = 80 THEN 80 ELSE 96

\* C24: for every request of n bytes, 1 <= n <= 512 KiB, the block of class
\* size_class(n) is at most 12.5% larger than n: 8 * class_size <= 9 * n.
C24_OverheadAtMostEighth ==
    (al.pc = "size_class" /\ 1 <= al.layout.size) =>
        8 * ClassSize(al.class) <= 9 * al.layout.size

\* C25: one call of the heap's alloc calls VMM.alloc at most once to obtain
\* segments, whatever the length of the segment free-list.
C25_OneVmmCallPerAlloc ==
    vmm.calls <= 1

\* C26: an alloc whose try_lock of the VMM mutex failed in the segment refill
\* has returned null.
C26_LockedAllocReturnsNull ==
    (hist.op = "alloc" /\ vmm.failed) => hist.ptr = 0

\* C27: for a layout above 512 KiB, alloc returns what VMM.alloc(true, size,
\* log2(align)) returned, a pointer of the kernel half aligned to 4 KiB at
\* least; dealloc with the same layout unmaps the pages that alloc mapped and
\* gives the range back to the kernel tree; an alloc of the same layout right
\* after it succeeds again.
C27_HugeAllocDeallocAlloc ==
    [][/\ (vmmOp'.kind = "heap_alloc" /\ vmmOp'.ok)
            => (vmmOp'.kernel /\ vmmOp'.addr % PAGE_SIZE = 0)
       /\ (vmmOp'.kind = "free" /\ vmmOp'.undo >= 0)
            => (vmmPanicked' = "" /\ RestoredTo(vmmOp.pre))
       /\ (/\ vmmOp.kind = "free" /\ vmmOp.undo >= 0
           /\ vmmOp'.kind = "heap_alloc"
           /\ vmmOp'.size = vmmOp.size /\ vmmOp'.align_order = vmmOp.undo)
            => vmmOp'.ok]_vars

\* C28: when every block of a page has been deallocated, a slow-path alloc of
\* the owner in the class of the page that walks past it in find_page (the
\* page is the head of the class list and has a successor) retires it: the
\* page leaves the class list, and its segment goes to the segment free-list
\* when that was its last page in use.
C28_EmptyPageRetired ==
    [][\A class \in 0 .. (NUM_SIZE_CLASSES - 1) :
         (/\ al.pc = "idle" /\ hist'.allocs = hist.allocs + 1
          /\ pages[class] # NoPage
          /\ page_meta[pages[class]].next # NoPage
          /\ page_meta[pages[class]].free = 0
          /\ Outstanding(pages[class]) = {}
          /\ \/ al'.pc # "idle" /\ al'.class = class
             \/ /\ al'.pc = "idle" /\ hist'.ptr # 0
                /\ LayoutClass(live'[hist'.ptr]) = class)
            => /\ pages'[class] # pages[class]
               /\ (segment_meta[pages[class][1]].used = 1 => fs_len' >= fs_len)]_vars

\* the chunks freed by the call, as (order, addr) pairs in call order
Chunks == pfaOp.chunks

RECURSIVE ChunkBytes(_, _)
ChunkBytes(chunks, i) ==
    IF i > Len(chunks) THEN 0 ELSE 2 ^ chunks[i][1] + ChunkBytes(chunks, i + 1)

\* C29: free_region([start, end)) with 4 KiB-aligned end points calls free on
\* chunks (order, addr) that are pairwise disjoint, each aligned to 2^order, and
\* whose union is exactly [start, end) (every chunk inside the range, and the
\* sizes adding up to its length); a range shorter than 2 * 4 KiB frees one or
\* zero chunks, and an empty range frees none.
C29_FreeRegionChunks ==
    (pfaOp.kind = "free_region" /\ "chunks" \in DOMAIN pfaOp) =>
        /\ \A i \in 1 .. Len(Chunks) :
              /\ Chunks[i][1] \in ORDERS
              /\ Chunks[i][2] % (2 ^ Chunks[i][1]) = 0
              /\ pfaOp.start <= Chunks[i][2]
              /\ Chunks[i][2] + 2 ^ Chunks[i][1] <= pfaOp.end
              /\ \A j \in (i + 1) .. Len(Chunks) :
                    ~Overlap(Chunks[i][2], Chunks[i][2] + 2 ^ Chunks[i][1],
                             Chunks[j][2], Chunks[j][2] + 2 ^ Chunks[j][1])
        /\ ChunkBytes(Chunks, 1) = pfaOp.end - pfaOp.start
        /\ pfaOp.end - pfaOp.start < 2 * (2 ^ ORDER_START) => Len(Chunks) <= 1
        /\ pfaOp.end = pfaOp.start => Len(Chunks) = 0

\* C29 witness: a range whose start is peeled at every order, one chunk per
\* order up to the top one
C29_Witness ==
    /\ pfaOp.kind = "free_region" /\ "chunks" \in DOMAIN pfaOp
    /\ pfaOp.start = 2 ^ ORDER_START /\ pfaOp.end = MemorySize
    /\ Len(Chunks) > 2

\* the free ranges of a tree, as <<start, end>>
TreeRanges(t) == {<<a, a + t.addr_size_tree[a]>> : a \in DOMAIN t.addr_size_tree}

\* the last call was a free of a range that starts below kernel_start and ends
\* above it, and it returned
StraddlingFree ==
    /\ vmmOp.kind = "free_at" /\ vmmPanicked = ""
    /\ vmmOp.addr < kernel_start /\ kernel_start < vmmOp.addr + vmmOp.size

\* C30: after vmm::init and after any VMM.free, every range in the user tree
\* lies entirely below kernel_start and every range in the kernel tree lies at
\* or above kernel_start; a VMM.free whose range straddles kernel_start is
\* split at the boundary and each part is inserted into its own tree.
C30_TreesSplitAtKernelStart ==
    /\ (vmmOp.kind \in {"init", "free_at"} /\ vmmPanicked = "") =>
          /\ \A r \in TreeRanges(user_alloc) : r[2] <= kernel_start
          /\ \A r \in TreeRanges(kernel_alloc) : kernel_start <= r[1]
          /\ \A e \in user_alloc.size_addr_tree : e[2] + e[1] <= kernel_start
          /\ \A e \in kernel_alloc.size_addr_tree : kernel_start <= e[2]
    /\ StraddlingFree =>
          /\ \E r \in TreeRanges(user_alloc) :
                r[1] <= vmmOp.addr /\ r[2] = kernel_start
          /\ \E r \in TreeRanges(kernel_alloc) :
                r[1] = kernel_start /\ vmmOp.addr + vmmOp.size <= r[2]

\* C30 witness: a free of the last 2 MiB below kernel_start and the first
\* 2 MiB above it has unmapped both pages and returned
C30_Witness ==
    /\ StraddlingFree
    /\ vmmOp.addr = kernel_start - HUGE_PAGE_SIZE /\ vmmOp.size = 2 * HUGE_PAGE_SIZE
    /\ <<FALSE, vmmOp.addr>> \in vmmOp.pre.huge
    /\ <<TRUE, kernel_start>> \in vmmOp.pre.huge
    /\ page_table.huge \cap {<<FALSE, vmmOp.addr>>, <<TRUE, kernel_start>>} = {}

\* the segments that the loop of vmm::init pushed, in push order
Pushed == vmmOp.pushed

ForeignStep(t) ==
    \/ ForeignNormal(t)
    \/ ForeignDelaying(t)
    \/ ForeignDelayed(t)
    \/ ForeignLoadDelayed(t)
    \/ ForeignPushDelayed(t)
    \/ ForeignStoreNormal(t)

\* foreign threads freeing blocks while the owner allocates
FairNext ==
    \/ vmm_init
    \/ hist.allocs < MaxSharedAllocs /\ HeapAlloc([size |-> 8192, align |-> 8])
    \/ AllocCas
    \/ AllocSwap
    \/ \E t \in Foreign, b \in Freeable : ForeignDealloc(t, b)
    \/ \E t \in Foreign : ForeignStep(t)

\* every foreign thread that is inside dealloc keeps running; nothing is
\* assumed about the owner
SpecFair == Init /\ [][FairNext]_vars /\ \A t \in Foreign : WF_vars(ForeignStep(t))

\* the number of times a call has re-read thread_free in the Delaying arm
C31_AtMostFourReads == \A t \in Foreign : dl[t].counter <= 4

\* every foreign dealloc that was called returns
C31_ForeignDeallocReturns ==
    \A t \in Foreign : (dl[t].pc # "idle") ~> (dl[t].pc = "idle")

C32_SwapYieldsBlock ==
    (al.pc = "swap") => TfPtr(page_meta[al.page].thread_free) # 0

\* ---------------------------------------------------------------------------
\* The pointer bits of thread_free in the states Delayed and Delaying
\* (malloc/mod.rs 139-154, 501-519, 688-734)

Handoff(word) == TfState(word) \in {Delayed, Delaying}

\* a word in state Delayed or Delaying has null pointer bits
C38_HandoffWordIsBare ==
    \A p \in DOMAIN page_meta :
        Handoff(page_meta[p].thread_free) => TfPtr(page_meta[p].thread_free) = 0

\* a step that takes a word to Delayed or to Delaying starts from a word with
\* null pointer bits
C38_HandoffStep ==
    \A p \in DOMAIN page_meta :
        (p \in DOMAIN page_meta'
           /\ page_meta'[p].thread_free # page_meta[p].thread_free
           /\ Handoff(page_meta'[p].thread_free))
        => TfPtr(page_meta[p].thread_free) = 0

\* C38: whenever the state bits of a page's thread_free word are Delayed or
\* Delaying its pointer bits are null, and neither the owner's CAS from Normal
\* to Delayed nor a foreign thread's CAS to Delaying replaces a word that
\* holds a block pointer
C38_NoPointerInHandoff == []C38_HandoffWordIsBare /\ [][C38_HandoffStep]_vars

\* the owner has taken the word of a full page to Delayed and a foreign thread
\* has taken it on to Delaying, with its block not yet on delayed_free
C38_Witness ==
    \E t \in Foreign :
        /\ dl[t].pc = "df_load" /\ page_meta[dl[t].page].thread_free = Delaying
        /\ page_meta[dl[t].page].is_full

\* ---------------------------------------------------------------------------
\* FreeSegments: push and pop called by several threads at once, every load,
\* compare_exchange and fetch_add/fetch_sub one step (malloc/mod.rs 536-575).
\* dl holds every thread's position inside push or pop, live how many holders
\* every segment has outside the list, hist the number of calls made.

\* number of segments that are pushed and popped
MaxListSegments == 2
\* number of push calls and number of pop calls
MaxListCalls == 3

ListSegments == {SEGMENT_SIZE * i : i \in 1 .. MaxListSegments}

ListInit ==
    /\ PfaInit /\ VmmNew
    /\ segment_meta = [x \in {} |-> 0]
    /\ page_meta = [x \in {} |-> 0]
    /\ pages = [c \in 0 .. (NUM_SIZE_CLASSES - 1) |-> NoPage]
    /\ free_small_pages = NoPage
    /\ full_pages = NoPage
    /\ delayed_free = 0
    /\ mem = [s \in ListSegments |-> 0]
    /\ fs_ptr = 0
    /\ fs_len = 0
    /\ vmm = [set |-> FALSE, pool |-> 0, next |-> 0, locked |-> FALSE,
              calls |-> 0, failed |-> FALSE]
    /\ al = IdleAlloc
    /\ dl = [t \in Foreign |-> IdleDealloc]
    /\ halted = FALSE
    /\ live = [s \in ListSegments |-> 1]
    /\ hist = [actor |-> 0, op |-> "new", ptr |-> 0, pushes |-> 0, pops |-> 0]

ListFrame ==
    /\ UNCHANGED <<segment_meta, page_meta, pages, free_small_pages, full_pages,
                   delayed_free, vmm, al, halted>>
    /\ UNCHANGED <<pfaVars, vmmVars>>

\* push: (*list).next = self.ptr.load()
seg_push_load(t, s) ==
    /\ dl[t].pc = "idle" /\ live[s] > 0 /\ hist.pushes < MaxListCalls
    /\ mem' = Wr(mem, s, fs_ptr)
    /\ dl' = [dl EXCEPT ![t] = [IdleDealloc EXCEPT !.pc = "push_cas", !.ptr = s]]
    /\ live' = [live EXCEPT ![s] = @ - 1]
    /\ hist' = [hist EXCEPT !.actor = t, !.op = "push", !.ptr = s, !.pushes = @ + 1]
    /\ UNCHANGED <<fs_ptr, fs_len>>
    /\ ListFrame

\* push: self.ptr.compare_exchange((*list).next, list), on failure
\* (*list).next = next
seg_push_cas(t) ==
    /\ dl[t].pc = "push_cas"
    /\ IF fs_ptr = mem[dl[t].ptr]
       THEN /\ fs_ptr' = dl[t].ptr
            /\ dl' = [dl EXCEPT ![t].pc = "push_len"]
            /\ UNCHANGED mem
       ELSE /\ mem' = Wr(mem, dl[t].ptr, fs_ptr)
            /\ UNCHANGED <<fs_ptr, dl>>
    /\ hist' = [hist EXCEPT !.actor = t, !.op = "push_step"]
    /\ UNCHANGED <<fs_len, live>>
    /\ ListFrame

\* push: self.len.fetch_add(1)
seg_push_len(t) ==
    /\ dl[t].pc = "push_len"
    /\ fs_len' = (fs_len + 1) % UsizeWrap
    /\ dl' = [dl EXCEPT ![t] = IdleDealloc]
    /\ hist' = [hist EXCEPT !.actor = t, !.op = "pushed"]
    /\ UNCHANGED <<mem, fs_ptr, live>>
    /\ ListFrame

\* pop: NonNull::new(self.ptr.load())?
seg_pop_load(t) ==
    /\ dl[t].pc = "idle" /\ hist.pops < MaxListCalls
    /\ IF fs_ptr = 0
       THEN /\ hist' = [hist EXCEPT !.actor = t, !.op = "pop_none", !.ptr = 0,
                                    !.pops = @ + 1]
            /\ UNCHANGED dl
       ELSE /\ dl' = [dl EXCEPT ![t] = [IdleDealloc EXCEPT !.pc = "pop_next",
                                                           !.ptr = fs_ptr]]
            /\ hist' = [hist EXCEPT !.actor = t, !.op = "pop", !.ptr = fs_ptr,
                                    !.pops = @ + 1]
    /\ UNCHANGED <<mem, fs_ptr, fs_len, live>>
    /\ ListFrame

\* pop: the argument ptr.as_ref().next of the compare_exchange.  The segment
\* may by now be held by a caller that writes to it: such a read races with
\* those writes and may see any value.
seg_pop_next(t) ==
    /\ dl[t].pc = "pop_next"
    /\ \E next \in IF live[dl[t].ptr] > 0
                   THEN ListSegments \cup {0}
                   ELSE {mem[dl[t].ptr]} :
          dl' = [dl EXCEPT ![t].pc = "pop_cas", ![t].cur = next]
    /\ hist' = [hist EXCEPT !.actor = t, !.op = "pop_step"]
    /\ UNCHANGED <<mem, fs_ptr, fs_len, live>>
    /\ ListFrame

\* pop: self.ptr.compare_exchange(ptr, next), on failure ptr = NonNull::new(curr)?
seg_pop_cas(t) ==
    /\ dl[t].pc = "pop_cas"
    /\ IF fs_ptr = dl[t].ptr
       THEN /\ fs_ptr' = dl[t].cur
            /\ dl' = [dl EXCEPT ![t].pc = "pop_len"]
            /\ hist' = [hist EXCEPT !.actor = t, !.op = "pop_step"]
       ELSE /\ UNCHANGED fs_ptr
            /\ IF fs_ptr = 0
               THEN /\ dl' = [dl EXCEPT ![t] = IdleDealloc]
                    /\ hist' = [hist EXCEPT !.actor = t, !.op = "pop_none", !.ptr = 0]
               ELSE /\ dl' = [dl EXCEPT ![t].pc = "pop_next", ![t].ptr = fs_ptr]
                    /\ hist' = [hist EXCEPT !.actor = t, !.op = "pop_step"]
    /\ UNCHANGED <<mem, fs_len, live>>
    /\ ListFrame

\* pop: self.len.fetch_sub(1); Some(ptr)
seg_pop_len(t) ==
    /\ dl[t].pc = "pop_len"
    /\ fs_len' = (fs_len + UsizeWrap - 1) % UsizeWrap
    /\ live' = [live EXCEPT ![dl[t].ptr] = @ + 1]
    /\ dl' = [dl EXCEPT ![t] = IdleDealloc]
    /\ hist' = [hist EXCEPT !.actor = t, !.op = "popped", !.ptr = dl[t].ptr]
    /\ UNCHANGED <<mem, fs_ptr>>
    /\ ListFrame

ListNext ==
    \/ \E t \in Foreign, s \in ListSegments : seg_push_load(t, s)
    \/ \E t \in Foreign : seg_push_cas(t)
    \/ \E t \in Foreign : seg_push_len(t)
    \/ \E t \in Foreign : seg_pop_load(t)
    \/ \E t \in Foreign : seg_pop_next(t)
    \/ \E t \in Foreign : seg_pop_cas(t)
    \/ \E t \in Foreign : seg_pop_len(t)

SpecList == ListInit /\ [][ListNext]_vars

\* the segments reached from the head of the list, at most n of them
RECURSIVE ListChain(_, _)
ListChain(p, n) ==
    IF p = 0 \/ n = 0 THEN <<>> ELSE <<p>> \o ListChain(mem[p], n - 1)

OnList == ListChain(fs_ptr, MaxListSegments + 1)

\* the segments whose push has linked them in and that no pop has unlinked
PushedSegments ==
    {s \in ListSegments :
        /\ live[s] = 0
        /\ \A t \in Foreign :
              dl[t].ptr = s => dl[t].pc \notin {"push_cas", "pop_len"}}

\* C33: under any interleaving of push and pop calls every pushed segment is
\* returned by at most one pop (no segment has two holders), no pushed segment
\* is lost (it is linked in the list exactly once), and a list that holds a
\* pushed segment has a non-null head, so the next pop returns a segment
C33_PushedOnceOnList ==
    /\ \A s \in ListSegments : live[s] <= 1
    /\ {OnList[i] : i \in DOMAIN OnList} = PushedSegments
    /\ Len(OnList) = Cardinality(PushedSegments)

\* no push and no pop is in progress
ListQuiet == \A t \in Foreign : dl[t].pc = "idle"

\* len has not wrapped around below zero
C39_NoUnderflow == fs_len < UsizeWrap \div 2

\* len is the number of segments on the list whenever no call is in progress
C39_QuietLen == ListQuiet => fs_len = Len(OnList)

\* C39: the len counter of the segment free-list equals the number of
\* segments on the list whenever no push or pop is in progress, and it never
\* goes below zero at any point of an interleaving of push and pop calls
C39_LenCountsList == C39_QuietLen /\ C39_NoUnderflow

\* ---------------------------------------------------------------------------
\* The free list of a freshly initialised page, for every size class
\* (malloc/mod.rs 345-441, 47-56)

\* number of pages that are initialised in one run
MaxPageAllocs == 2
\* size_of::<Segment header>: SegmentMeta and the one PageMeta of a large segment
SegmentHeaderSize == 64

\* alloc_small_page or alloc_large_page called for a class, as the slow path
\* of alloc calls them when the class has no page
PageAlloc(class) ==
    /\ ~halted /\ vmm.set /\ al.pc = "idle"
    /\ hist.allocs < MaxPageAllocs
    /\ \E r \in {IF class < Len(SMALL_SIZE_CLASSES)
                 THEN alloc_small_page(HeapState, class)
                 ELSE alloc_large_page(HeapState, class)} :
          /\ r.page # NoPage
          /\ Commit(r.h)
          /\ al' = [al EXCEPT !.class = class, !.page = r.page]
    /\ hist' = [hist EXCEPT !.actor = 0, !.op = "alloc_page", !.allocs = @ + 1]
    /\ UNCHANGED <<delayed_free, dl, halted, live>>
    /\ UNCHANGED <<pfaVars, vmmVars>>

PageNext ==
    \/ vmm_init
    \/ \E class \in 0 .. (NUM_SIZE_CLASSES - 1) : PageAlloc(class)

SpecPage == Init /\ [][PageNext]_vars

\* the largest power of two that divides n
RECURSIVE LowBit(_)
LowBit(n) == IF n % 2 = 1 THEN 1 ELSE 2 * LowBit(n \div 2)

\* what the blocks of a page are measured against: the block size, the bytes
\* [lo, hi) of the page body and the alignment of the class
PageShape(page) ==
    LET class == page_meta[page].class
    IN  [size |-> ClassSize(class),
         align |-> LowBit(ClassSize(class)),
         lo |-> IF class < Len(SMALL_SIZE_CLASSES)
                THEN small_page_start(page)
                ELSE page[1] + SegmentHeaderSize,
         hi |-> IF class < Len(SMALL_SIZE_CLASSES)
                THEN small_page_start(page) + SMALL_PAGE_SIZE
                ELSE page[1] + SEGMENT_SIZE]

\* block b lies in the page body, is aligned, and the block linked behind it
\* ends at or below it
BlockInPlace(b, q) ==
    /\ q.lo <= b /\ b + q.size <= q.hi
    /\ b % q.align = 0
    /\ mem[b] = 0 \/ mem[b] + q.size <= b

\* the words of memory written in the bytes [lo, hi)
BodyNodes(lo, hi) == {x \in DOMAIN mem : lo <= x /\ x < hi}

\* the pages whose free list has been written
FreshPages == {page \in DOMAIN page_meta : page_meta[page].free # 0}

\* the head of the free list is a node in the page body, every node there is
\* in place and is linked to another node there or ends the list: the list
\* from the head on runs through nodes in place, downwards
FreeListInPlace(page) ==
    \A q \in {PageShape(page)} :
        \A nodes \in {BodyNodes(q.lo, q.hi)} :
            /\ page_meta[page].free \in nodes
            /\ \A b \in nodes :
                  /\ BlockInPlace(b, q)
                  /\ mem[b] = 0 \/ mem[b] \in nodes

\* C34: for every size class the blocks on the free list of a freshly
\* initialised page are pairwise disjoint blocks of the class size (every
\* block ends at or below the block linked in front of it), all inside the
\* page body (a small page's own 64 KiB behind the metadata prefix page, for a
\* large class between the segment header and the end of the segment), each
\* at a multiple of the largest power of two that divides the class size
C34_FreshPageBlocks ==
    \A page \in FreshPages :
        /\ FreeListInPlace(page)
        /\ page_meta[page].class < Len(SMALL_SIZE_CLASSES)
              => page[1] + SMALL_PAGE_SIZE <= PageShape(page).lo
        /\ PageShape(page).hi <= page[1] + SEGMENT_SIZE

\* a fresh page of 48-byte blocks, which do not fill the 64 KiB evenly, and a
\* fresh large page of 10240-byte blocks, whose first block is at the remainder
C34_Witness ==
    /\ hist.op = "alloc_page"
    /\ \E p \in FreshPages, q \in FreshPages :
          /\ page_meta[p].class = 3 /\ mem[page_meta[p].free] # 0
          /\ page_meta[q].class = Len(SMALL_SIZE_CLASSES) /\ mem[page_meta[q].free] # 0

\* ---------------------------------------------------------------------------
\* alloc served from a free chunk of a higher order (pmm.rs 326-347)

\* the last step was an alloc(order) that popped its chunk from a list above
ServedAbove ==
    /\ ~pfaPanicked
    /\ pfaOp.kind = "alloc" /\ pfaOp.ok /\ pfaOp.from > pfaOp.order

\* the bytes on the free lists, an entry of the list of order o counting 2^o
RECURSIVE ListBytesFrom(_, _)
ListBytesFrom(fl, o) ==
    IF o >= ORDER_END THEN 0 ELSE Len(fl[o]) * (2 ^ o) + ListBytesFrom(fl, o + 1)

ListBytes(fl) == ListBytesFrom(fl, ORDER_START)

\* no entry of a free list lies in the 2^from bytes from the returned address on
C35_ChunkOffLists ==
    \A o \in ORDERS : \A i \in DOMAIN free_list[o] :
        ~Overlap(free_list[o][i] - PhysOffset, free_list[o][i] - PhysOffset + 2 ^ o,
                 pfaOp.result, pfaOp.result + 2 ^ pfaOp.from)

\* C35: an alloc(order) served from a free chunk of a higher order b pushes
\* nothing on any free list: the lists are those before the call without the
\* popped entry, the memory on the lists has decreased by 2^b, and no entry of
\* a list lies in the 2^b bytes of the chunk, which stay unavailable until
\* the returned address is freed
C35_AllocFromAbove ==
    ServedAbove =>
        /\ free_list = [pfaOp.fl EXCEPT ![pfaOp.from] = Tail(@)]
        /\ ListBytes(free_list) = ListBytes(pfaOp.fl) - 2 ^ pfaOp.from
        /\ C35_ChunkOffLists

\* ---------------------------------------------------------------------------
\* The size of the bitmap of every order against the pair indices of the
\* chunks of the memory (pmm.rs 215-229, 304-347, bitmap.rs 17-28)

\* memory_size is 2 MiB plus up to this many pages
MaxSizePages == 3

MemorySizes == {2 ^ 21 + k * (2 ^ ORDER_START) : k \in 0 .. MaxSizePages}

\* the addresses of the chunks of an order that lie below memory_size
ChunkAddrs(memory_size, order) ==
    {k * (2 ^ order) : k \in 0 .. (Shr(memory_size, order) - 1)}

\* BuddyAllocator::new(memory_size) followed by free(order, addr)
SizedFree(memory_size, order, addr) ==
    /\ pfaOp.kind = "new"
    /\ \E st \in {BuddyFree([EmptyPfa EXCEPT !.memory_size = memory_size], order, addr)} :
          /\ free_list' = st.fl
          /\ map' = st.mp
          /\ pfaPanicked' = st.panic
    /\ pfaOp' = [kind |-> "sized_free", memory_size |-> memory_size,
                 order |-> order, addr |-> addr]
    /\ UNCHANGED <<pfaRegions, pfaOut, pfaAllocs, memory_regions, buddy_map>>
    /\ UNCHANGED <<heapVars, vmmVars>>

SizedNext ==
    \E memory_size \in MemorySizes, order \in ORDERS :
       \E addr \in ChunkAddrs(memory_size, order) :
          SizedFree(memory_size, order, addr)

SpecSized == Init /\ [][SizedNext]_vars

\* C36: for every memory_size and every order o the pair index addr >> (o + 1)
\* of every chunk address below memory_size is smaller than
\* 64 * order_map_size(memory_size, o), so that free toggles no bit outside
\* the bitmap of its order, also when memory_size is not a multiple of 2^(o+1)
C36_PairIndexInsideMap ==
    pfaOp.kind = "sized_free" =>
        /\ Shr(pfaOp.addr, pfaOp.order + 1)
              < BITS * order_map_size(pfaOp.memory_size, pfaOp.order)
        /\ ~pfaPanicked

\* ---------------------------------------------------------------------------
\* VMM.free and the frame allocator (vmm.rs 257-302)

\* the last step was a call of VMM.free
VmmFreeStep == vmmOp'.kind = "free" /\ vmmOp'.calls = vmmOp.calls + 1

\* no page of [addr, addr + size) of the half is mapped
RangeUnmapped(kernel, addr, size) ==
    \A p \in PagesOf(addr, size) :
        /\ <<kernel, p>> \notin page_table.small
        /\ <<kernel, AlignDown(p, HUGE_PAGE_SIZE)>> \notin page_table.huge

\* [addr, addr + size) lies inside one free range of the tree
RangeInTree(t, addr, size) ==
    \E r \in TreeRanges(t) : r[1] <= addr /\ addr + size <= r[2]

C37_FramesKept ==
    VmmFreeStep =>
        (free_list' = free_list /\ map' = map /\ pfaPanicked' = pfaPanicked)

C37_RangeFreed ==
    (vmmOp.kind = "free" /\ vmmPanicked = "") =>
        /\ RangeUnmapped(vmmOp.kernel, vmmOp.addr, vmmOp.size)
        /\ RangeInTree(TreeOf(VmmState, vmmOp.kernel), vmmOp.addr, vmmOp.size)

\* C37: VMM.free unmaps the pages of the range and inserts the range into the
\* free tree of its half, and it leaves the free lists and the bitmaps of the
\* frame allocator as they were: the frames that VMM.alloc took for the range
\* are not given back.
C37_FreeKeepsFrames == []C37_RangeFreed /\ [][C37_FramesKept]_vars

\* C37 witness: the heap's 2 MiB block was freed and the call returned, and
\* the frame allocator still has no 2 MiB frame
C37_Witness ==
    /\ vmmOp.kind = "free" /\ vmmPanicked = ""
    /\ vmmOp.undo >= 0 /\ vmmOp.size = HUGE_PAGE_SIZE
    /\ free_list[ORDER_END - 1] = <<>>

\* ---------------------------------------------------------------------------
\* Huge blocks and the VMM mutex (malloc/mod.rs 600-614, 660-669)

HugeLayouts ==
    {[size |-> HUGE_PAGE_SIZE, align |-> HUGE_PAGE_SIZE], [size |-> 528384, align |-> 4096]}

\* another context takes VMM.lock()
HugeLock ==
    /\ VmmReady /\ ~vmm.locked
    /\ vmm' = [vmm EXCEPT !.locked = TRUE]
    /\ UNCHANGED <<segment_meta, page_meta, pages, free_small_pages, full_pages,
                   delayed_free, mem, fs_ptr, fs_len, al, dl, halted, live, hist>>
    /\ UNCHANGED <<pfaVars, vmmVars>>

\* and drops the guard
HugeUnlock ==
    /\ VmmReady /\ vmm.locked
    /\ vmm' = [vmm EXCEPT !.locked = FALSE]
    /\ UNCHANGED <<segment_meta, page_meta, pages, free_small_pages, full_pages,
                   delayed_free, mem, fs_ptr, fs_len, al, dl, halted, live, hist>>
    /\ UNCHANGED <<pfaVars, vmmVars>>

\* Allocator::alloc of a huge layout: null when try_lock fails
AllocHuge(layout) ==
    IF vmm.locked
    THEN /\ VmmReady
         /\ LARGE_SIZE_CLASSES[Len(LARGE_SIZE_CLASSES)] < PaddedSize(layout)
         /\ vmmOp' = [kind |-> "heap_alloc", kernel |-> TRUE, size |-> layout.size,
                      align_order |-> BitLength(layout.align) - 1, ok |-> FALSE,
                      addr |-> 0, oom |-> FALSE, null |-> TRUE, pre |-> VmmPre,
                      calls |-> vmmOp.calls + 1]
         /\ UNCHANGED <<kernel_alloc, user_alloc, page_table, vmmPanicked, vmmOut>>
         /\ UNCHANGED <<pfaVars, heapVars>>
    ELSE HeapAllocHuge(layout)

\* Allocator::dealloc of a huge block the caller holds: vmm.free(ptr,
\* layout.size()) under try_lock, and a plain return when try_lock fails
DeallocHuge(c, checked) ==
    /\ VmmReady /\ c \in vmmOut /\ c[1]
    /\ LARGE_SIZE_CLASSES[Len(LARGE_SIZE_CLASSES)] < c[3]
    /\ IF vmm.locked
       THEN /\ UNCHANGED <<kernel_alloc, user_alloc, page_table, vmmPanicked>>
            /\ UNCHANGED <<pfaVars, heapVars>>
       ELSE \E v \in {VirtualMemoryManager_free(VmmState, TRUE, c[2], c[3], checked)} :
               VmmCommit(v)
    /\ vmmOut' = vmmOut \ {c}
    /\ vmmOp' = [kind |-> "heap_dealloc", kernel |-> TRUE, addr |-> c[2], size |-> c[3],
                 checked |-> checked, locked |-> vmm.locked, pre |-> VmmPre,
                 calls |-> vmmOp.calls + 1]

HugeNext ==
    \/ VmmInit
    \/ HugeLock
    \/ HugeUnlock
    \/ \E layout \in HugeLayouts : AllocHuge(layout)
    \/ \E c \in vmmOut, checked \in BOOLEAN : DeallocHuge(c, checked)

SpecHuge == VmmBootInit /\ [][HugeNext]_vars

\* C40: every dealloc of a huge block has applied VMM.free to the range of the
\* block by the time it returns, also when another context holds the VMM
\* mutex when dealloc is called: after the call no page of the range is mapped
\* and the range is in the kernel tree
C40_HugeDeallocFrees ==
    (vmmOp.kind = "heap_dealloc" /\ vmmPanicked = "") =>
        /\ RangeUnmapped(TRUE, vmmOp.addr, vmmOp.size)
        /\ RangeInTree(kernel_alloc, vmmOp.addr, vmmOp.size)

====
